---- MODULE Spec2Model ----
(***************************************************************************)
(* Verification development for the fittingzz-server REST backend:        *)
(* account registration / e-mail verification / password reset           *)
(* (user.service.ts, user.repository.ts), the bearer-token middleware     *)
(* with its in-memory cache (auth.middleware.ts, SimpleCache) and the     *)
(* per-owner client records (client.service.ts, client.repository.ts).    *)
(*                                                                         *)
(* Time is counted in minutes.  The store is modelled as the rows of the   *)
(* users and clients tables; every repository call is one SQL statement   *)
(* and therefore one atomic read or write of that store.                   *)
(***************************************************************************)
EXTENDS Integers, Sequences, FiniteSets, TLC

VARIABLES
  users,      \* users table: function from the ids of stored rows to rows
  nextId,     \* number of user ids handed out so far (uuid defaultRandom)
  clients,    \* clients table: function from client ids to rows
  nextClient, \* number of client ids handed out so far
  cache,      \* SimpleCache.cache: function from keys to [value, expires]
  held,       \* the signed token a caller has kept from an earlier response
  now,        \* the clock, in minutes
  inflight,   \* per request slot: the handler position and its locals
  resp        \* the response (or middleware outcome) of the last request

vars == <<users, nextId, clients, nextClient, cache, held, now, inflight, resp>>

----------------------------------------------------------------------------
(* Bounds of the model *)

MaxUsers == 2
MaxTime == 20
TickMinutes == 5
MaxClients == 2
MaxRequests == 2
JwtExpiresInMinutes == 10

(* Program constants, in minutes *)

VerificationMinutes == 10
ResetMinutes == 15
ResetTokenMinutes == 5
CacheTtlMinutes == 5
CodeBase == 100000
MaxDraw == 899999

----------------------------------------------------------------------------
(* Values *)

NullTime == -1
NullCode == << >>
NoUser == 0

UserIds == 1..MaxUsers
SeedId == 1

\* e-mail addresses as the caller types them, and zod's .toLowerCase()
RawEmails == {"A@x.io", "a@x.io", "b@x.io"}

\* the address that registers, in two spellings
SameEmails == {"A@x.io", "a@x.io"}

ToLowerCase(e) == IF e = "A@x.io" THEN "a@x.io" ELSE e

Passwords == {"Passw0rd1", "Passw0rd2"}

\* bcrypt.hash / bcrypt.compare: the hash is not the password, and compare
\* accepts exactly the password that was hashed
BcryptHash(p) == <<"bcrypt", p>>

BcryptCompare(p, h) == h = BcryptHash(p)

\* Number.prototype.toString(): the decimal digits of n, most significant first
RECURSIVE ToDigits(_)
ToDigits(n) == IF n < 10 THEN <<n>> ELSE Append(ToDigits(n \div 10), n % 10)

\* the values Math.floor(Math.random() * 900000) takes in the model
RandomDraws == {23456, 554321}

\* Math.floor(100000 + Math.random() * 900000).toString()
GenerateCode(draw) == ToDigits(CodeBase + draw)

\* codes a caller may submit: the schema admits any string of 6 digits
SubmittedCodes == {GenerateCode(d) : d \in RandomDraws} \cup {<<0, 0, 0, 0, 0, 0>>}

----------------------------------------------------------------------------
(* users table and UserRepository *)

\* the row db.insert(users).values({...userData, password}) creates, with
\* the column defaults of user.schema
NewUserRow(email, hashed, name) ==
  [ email |-> email, password |-> hashed, businessName |-> name,
    role |-> "business", isEmailVerified |-> FALSE, isActive |-> TRUE,
    lastLoginAt |-> NullTime,
    emailVerificationCode |-> NullCode, emailVerificationExpiresAt |-> NullTime,
    passwordResetCode |-> NullCode, passwordResetExpiresAt |-> NullTime ]

\* the row scripts/create-super-admin.ts inserts
SuperAdminRow(active) ==
  [ NewUserRow("b@x.io", BcryptHash("Passw0rd2"), "Fittingz Admin")
      EXCEPT !.role = "super_admin", !.isEmailVerified = TRUE, !.isActive = active ]

\* UserRepository.findByEmail: the id of the row with that e-mail, or NoUser
FindByEmail(us, email) ==
  IF \E i \in DOMAIN us : us[i].email = email
    THEN CHOOSE i \in DOMAIN us : us[i].email = email
    ELSE NoUser

\* UserRepository.findById
FindById(us, id) == IF id \in DOMAIN us THEN id ELSE NoUser

\* overwrite the columns named in fields
Merge(row, fields) ==
  [ c \in DOMAIN row |-> IF c \in DOMAIN fields THEN fields[c] ELSE row[c] ]

\* UserRepository.update: set the given columns of the row with that id; no
\* row, no change.  (The updatedAt stamp it also writes is not a column of
\* the model.)
RepoUpdate(us, id, fields) ==
  IF id \in DOMAIN us THEN [us EXCEPT ![id] = Merge(us[id], fields)] ELSE us

\* UserRepository.updateLastLogin
UpdateLastLogin(us, id, t) == RepoUpdate(us, id, [lastLoginAt |-> t])

\* setEmailVerificationCode writing the expiry and leaving the code
SetEmailVerificationCodeKeepCode(us, id, code, expiresAt) ==
  IF id \in DOMAIN us
    THEN [us EXCEPT ![id].emailVerificationExpiresAt = expiresAt]
    ELSE us

\* setEmailVerificationCode leaving an expiry that is on file as it is
SetEmailVerificationCodeKeepExpiry(us, id, code, expiresAt) ==
  RepoUpdate(us, id,
    [emailVerificationCode |-> code,
     emailVerificationExpiresAt |->
        IF us[id].emailVerificationExpiresAt # NullTime
          THEN us[id].emailVerificationExpiresAt ELSE expiresAt])

\* UserRepository.setEmailVerificationCode: code and expiry in one update
SetEmailVerificationCode(us, id, code, expiresAt) ==
  RepoUpdate(us, id,
    [emailVerificationCode |-> code, emailVerificationExpiresAt |-> expiresAt])

\* verifyEmailWithCode without the comparison of the clock with the expiry
VerifyEmailLookupNoExpiry(us, email, code, t) ==
  LET id == IF \E i \in DOMAIN us : us[i].email = email
              THEN CHOOSE i \in DOMAIN us : us[i].email = email ELSE NoUser IN
  IF id = NoUser THEN NoUser
  ELSE IF us[id].emailVerificationCode = NullCode
          \/ us[id].emailVerificationExpiresAt = NullTime THEN NoUser
  ELSE IF us[id].emailVerificationCode # code THEN NoUser
  ELSE id

\* verifyEmailWithCode without the comparison of the submitted code with the
\* stored one
VerifyEmailLookupAnyCode(us, email, code, t) ==
  LET id == IF \E i \in DOMAIN us : us[i].email = email
              THEN CHOOSE i \in DOMAIN us : us[i].email = email ELSE NoUser IN
  IF id = NoUser THEN NoUser
  ELSE IF us[id].emailVerificationCode = NullCode
          \/ us[id].emailVerificationExpiresAt = NullTime THEN NoUser
  ELSE IF t > us[id].emailVerificationExpiresAt THEN NoUser
  ELSE id

\* UserRepository.verifyEmailWithCode, the part that reads: the id of the
\* user the code verifies, or NoUser
VerifyEmailLookup(us, email, code, t) ==
  LET id == FindByEmail(us, email) IN
  IF id = NoUser THEN NoUser
  ELSE IF us[id].emailVerificationCode = NullCode
          \/ us[id].emailVerificationExpiresAt = NullTime THEN NoUser
  ELSE IF us[id].emailVerificationCode # code THEN NoUser
  ELSE IF t > us[id].emailVerificationExpiresAt THEN NoUser
  ELSE id

\* verifyEmailWithCode marking the account verified and leaving the code
MarkVerifiedKeepCode(us, id) ==
  IF id \in DOMAIN us THEN [us EXCEPT ![id].isEmailVerified = TRUE] ELSE us

\* UserRepository.verifyEmailWithCode, the part that writes
MarkVerified(us, id) ==
  RepoUpdate(us, id,
    [isEmailVerified |-> TRUE, emailVerificationCode |-> NullCode,
     emailVerificationExpiresAt |-> NullTime])

\* setPasswordResetCode writing the code alone
SetPasswordResetCodeOnly(us, email, code, expiresAt) ==
  [ i \in DOMAIN us |->
      IF us[i].email = email THEN [us[i] EXCEPT !.passwordResetCode = code] ELSE us[i] ]

\* setPasswordResetCode without its where clause
SetPasswordResetCodeEveryRow(us, email, code, expiresAt) ==
  [ i \in DOMAIN us |->
      [us[i] EXCEPT !.passwordResetCode = code, !.passwordResetExpiresAt = expiresAt] ]

\* UserRepository.setPasswordResetCode: update ... where email = ?
SetPasswordResetCode(us, email, code, expiresAt) ==
  [ i \in DOMAIN us |->
      IF us[i].email = email
        THEN [us[i] EXCEPT !.passwordResetCode = code,
                           !.passwordResetExpiresAt = expiresAt]
        ELSE us[i] ]

\* verifyPasswordResetCode without the check of the expiry
VerifyPasswordResetCodeNoExpiry(us, email, code, t) ==
  LET id == FindByEmail(us, email) IN
  IF id = NoUser THEN NoUser
  ELSE IF us[id].passwordResetCode = NullCode
          \/ us[id].passwordResetExpiresAt = NullTime THEN NoUser
  ELSE IF us[id].passwordResetCode # code THEN NoUser
  ELSE id

\* UserRepository.verifyPasswordResetCode: the id of the row the code is
\* good for, or NoUser
VerifyPasswordResetCode(us, email, code, t) ==
  LET id == FindByEmail(us, email) IN
  IF id = NoUser THEN NoUser
  ELSE IF us[id].passwordResetCode = NullCode
          \/ us[id].passwordResetExpiresAt = NullTime THEN NoUser
  ELSE IF us[id].passwordResetCode # code THEN NoUser
  ELSE IF t > us[id].passwordResetExpiresAt THEN NoUser
  ELSE id

\* UserRepository.create: insert under a fresh id; the unique index on
\* users.email makes the insert fail when the e-mail is already stored
InsertUser(us, id, row) ==
  IF \E i \in DOMAIN us : us[i].email = row.email
    THEN [ok |-> FALSE, users |-> us]
    ELSE [ok |-> TRUE, users |-> [i \in DOMAIN us \cup {id} |-> IF i = id THEN row ELSE us[i]]]

\* UserRepository.delete
RepoDelete(us, id) == [i \in DOMAIN us \ {id} |-> us[i]]

----------------------------------------------------------------------------
(* jwtToken (utils/jwt.ts) *)

\* HMAC-SHA256 of a payload under config.jwt.secret: only the server computes
\* it, and it differs for payloads that differ
Mac(token) ==
  <<"HS256", token.userId, token.email, token.role, token.purpose, token.iat, token.exp>>

\* jwt.sign(payload, secret, {expiresIn}): the payload with iat and exp, and
\* its signature.  A payload without a role or without a purpose decodes to
\* undefined there.
JwtSign(userId, email, role, purpose, ttl, t) ==
  LET payload == [ userId |-> userId, email |-> email, role |-> role,
                   purpose |-> purpose, iat |-> t, exp |-> t + ttl ]
  IN [ userId |-> userId, email |-> email, role |-> role, purpose |-> purpose,
       iat |-> t, exp |-> t + ttl, sig |-> Mac(payload) ]

\* jwtToken.verify: jwt.verify throws on a signature that is not that of the
\* payload and on clockTimestamp >= exp
JwtVerify(token, t) == token.sig = Mac(token) /\ t < token.exp

\* the session token register and login hand out
SessionToken(us, id, t) ==
  JwtSign(id, us[id].email, us[id].role, "undefined", JwtExpiresInMinutes, t)

\* the reset token verifyResetCode hands out: expiresIn '5m'
ResetToken(us, id, t) ==
  JwtSign(id, us[id].email, "undefined", "password_reset", ResetTokenMinutes, t)

\* what a caller can do to a token it holds without the server's secret:
\* rewrite the payload and leave the signature, which is then not the
\* payload's
Tampered(token) ==
  { [token EXCEPT !.purpose = "password_reset"],
    [token EXCEPT !.role = "super_admin"],
    [token EXCEPT !.exp = token.exp + MaxTime] } \ {token}

\* tokens a caller may present: those it kept and the one the last response
\* carried, as they are or tampered with
Received == held \cup (IF "token" \in DOMAIN resp THEN {resp.token} ELSE {})

Presentable == Received \cup UNION { Tampered(k) : k \in Received }

----------------------------------------------------------------------------
(* UserService: what each call decides *)

\* login without the check of isEmailVerified
LoginCheckNoVerified(us, email, pw) ==
  IF ~(\E i \in DOMAIN us : us[i].email = email) THEN "Invalid credentials"
  ELSE LET id == CHOOSE i \in DOMAIN us : us[i].email = email IN
       IF ~us[id].isActive THEN "Account is deactivated"
       ELSE IF us[id].password # BcryptHash(pw) THEN "Invalid credentials"
       ELSE "ok"

\* UserService.login up to the password check: the error it throws, or "ok"
LoginCheck(us, email, pw) ==
  LET id == FindByEmail(us, email) IN
  IF id = NoUser THEN "Invalid credentials"
  ELSE IF ~us[id].isActive THEN "Account is deactivated"
  ELSE IF ~us[id].isEmailVerified THEN "Please verify your email before logging in"
  ELSE IF ~BcryptCompare(pw, us[id].password) THEN "Invalid credentials"
  ELSE "ok"

\* the controller without its catch: every UnauthorizedError answers 401
LoginStatusAlways401(error) == IF error = "ok" THEN 200 ELSE 401

\* UserController.login and errorHandler: the status of a login failure
LoginStatus(error) ==
  IF error = "ok" THEN 200
  ELSE IF error = "Please verify your email before logging in" THEN 403
  ELSE 401

\* resetPasswordWithToken without the check of the purpose tag
ResetWithTokenCheckNoPurpose(us, token, t) ==
  IF ~(token.sig = Mac(token) /\ t < token.exp) THEN "Invalid or expired reset token"
  ELSE IF token.userId \notin DOMAIN us THEN "Failed to reset password"
  ELSE "Password reset successfully"

\* UserService.resetPasswordWithToken: the message it returns
ResetWithTokenCheck(us, token, t) ==
  IF ~JwtVerify(token, t) THEN "Invalid or expired reset token"
  ELSE IF token.purpose # "password_reset" THEN "Invalid reset token"
  ELSE IF FindById(us, token.userId) = NoUser THEN "Failed to reset password"
  ELSE "Password reset successfully"

\* the update of the password alone
ResetWithTokenUpdatePasswordOnly(us, token, newPassword) ==
  RepoUpdate(us, token.userId, [password |-> BcryptHash(newPassword)])

\* the update resetPasswordWithToken makes
ResetWithTokenUpdate(us, token, newPassword) ==
  RepoUpdate(us, token.userId,
    [password |-> BcryptHash(newPassword), passwordResetCode |-> NullCode,
     passwordResetExpiresAt |-> NullTime])

\* updateProfileSchema keeps businessName, contactNumber and address only
UpdateProfileFields(name) == [businessName |-> name]

\* the row as it is, hash included
PublicViewWithHash(row) == row

\* const { password, ...userResponse } = user
PublicView(row) == [f \in DOMAIN row \ {"password"} |-> row[f]]

UserStoreUnchanged == UNCHANGED <<users, nextId>>

OtherUnchanged == UNCHANGED <<clients, nextClient, cache, inflight>>

----------------------------------------------------------------------------
(* The auth routes, one action per request: validateBody, the controller,  *)
(* the service call and the error handler                                  *)

\* a send that lets the error of transporter.sendMail through
DeliveryPromiseUncaught(queue, fails) == IF fails THEN "rejected" ELSE "fulfilled"

\* the promise of the delivery: Queue.add rejects when the queue fails;
\* EmailService.sendEmail catches the error of transporter.sendMail and
\* resolves with {success: false}
DeliveryPromise(queue, fails) == IF queue /\ fails THEN "rejected" ELSE "fulfilled"

\* the try block around the delivery catches what an awaited promise rejects
\* with, and throws Error('Failed to send ...'); emailQueue.add(...) is called
\* without await, without a queue the send of emailService is awaited
DeliveryThrows(queue, fails) ==
  ~queue /\ DeliveryPromise(queue, fails) = "rejected"

\* POST /auth/register, with or without an e-mail queue and with a delivery
\* that fails or not; the delivery runs in process.nextTick, after register
\* has returned
RegisterVia(raw, pw, name, draw, queue, fails) ==
  LET email == ToLowerCase(raw)
      id == nextId + 1
      ins == InsertUser(users, id, NewUserRow(email, BcryptHash(pw), name))
      code == GenerateCode(draw)
      stored == SetEmailVerificationCode(ins.users, id, code, now + VerificationMinutes)
      token == SessionToken(ins.users, id, now)
  IN
  /\ OtherUnchanged /\ UNCHANGED <<now, held>>
  /\ IF FindByEmail(users, email) # NoUser
       THEN /\ resp' = [op |-> "register", email |-> email, status |-> 409,
                        message |-> "Email already registered"]
            /\ UNCHANGED <<users, nextId>>
       ELSE /\ nextId < MaxUsers
            /\ users' = stored
            /\ nextId' = id
            /\ resp' = [op |-> "register", email |-> email, status |-> 201,
                        message |-> "User registered successfully",
                        token |-> token, user |-> [id |-> id, row |-> PublicView(ins.users[id])],
                        sent |-> code, queue |-> queue, fails |-> fails]

\* POST /auth/register with a queue that takes the job
Register(raw, pw, name, draw) == RegisterVia(raw, pw, name, draw, TRUE, FALSE)

\* POST /auth/verify-email
VerifyEmail(raw, code) ==
  LET email == ToLowerCase(raw)
      id == VerifyEmailLookup(users, email, code, now)
  IN
  /\ OtherUnchanged /\ UNCHANGED <<now, nextId, held>>
  /\ IF id = NoUser
       THEN /\ resp' = [op |-> "verifyEmail", email |-> email, code |-> code,
                        status |-> 400, message |-> "Invalid or expired verification code"]
            /\ UNCHANGED users
       ELSE /\ users' = MarkVerified(users, id)
            /\ resp' = [op |-> "verifyEmail", email |-> email, code |-> code,
                        status |-> 200, message |-> "Email verified successfully"]

\* POST /auth/resend-verification, with or without an e-mail queue and with
\* a delivery that fails or not
ResendVerificationEmailVia(raw, draw, queue, fails) ==
  LET email == ToLowerCase(raw)
      id == FindByEmail(users, email)
      code == GenerateCode(draw)
  IN
  /\ OtherUnchanged /\ UNCHANGED <<now, nextId, held>>
  /\ IF id = NoUser
       THEN /\ resp' = [op |-> "resend", email |-> email, status |-> 200,
                        message |-> "If the email exists, a verification code has been sent"]
            /\ UNCHANGED users
       ELSE IF users[id].isEmailVerified
         THEN /\ resp' = [op |-> "resend", email |-> email, status |-> 400,
                          message |-> "Email is already verified"]
              /\ UNCHANGED users
         ELSE /\ users' = SetEmailVerificationCode(users, id, code,
                                                   now + VerificationMinutes)
              /\ resp' = IF DeliveryThrows(queue, fails)
                   THEN [op |-> "resend", email |-> email, status |-> 500,
                         message |-> "Internal server error",
                         sent |-> code, queue |-> queue, fails |-> fails]
                   ELSE [op |-> "resend", email |-> email, status |-> 200,
                         message |-> "Verification email sent successfully",
                         sent |-> code, queue |-> queue, fails |-> fails]

\* POST /auth/resend-verification with a queue that takes the job
ResendVerificationEmail(raw, draw) == ResendVerificationEmailVia(raw, draw, TRUE, FALSE)

\* POST /auth/login
Login(raw, pw) ==
  LET email == ToLowerCase(raw)
      id == FindByEmail(users, email)
      error == LoginCheck(users, email, pw)
  IN
  /\ OtherUnchanged /\ UNCHANGED <<now, nextId, held>>
  /\ IF error = "ok"
       THEN /\ users' = UpdateLastLogin(users, id, now)
            /\ resp' = [op |-> "login", email |-> email, password |-> pw,
                        status |-> 200, message |-> "Login successful",
                        token |-> SessionToken(users, id, now),
                        user |-> [id |-> id, row |-> PublicView(users[id])]]
       ELSE /\ UNCHANGED users
            /\ resp' = IF LoginStatus(error) = 403
                 THEN [op |-> "login", email |-> email, password |-> pw, status |-> 403,
                       thrown |-> "UnauthorizedError",
                       message |-> "Email verification required. Please check your email or request a new verification code.",
                       requiresVerification |-> TRUE, dataEmail |-> email]
                 ELSE [op |-> "login", email |-> email, password |-> pw,
                       thrown |-> "UnauthorizedError",
                       status |-> LoginStatus(error), message |-> error]

\* UserService.requestPasswordReset: the message it returns
ForgotPasswordMessage(us, email) ==
  IF FindByEmail(us, email) = NoUser
    THEN "If the email exists, a reset code has been sent"
    ELSE "Password reset code sent to your email"

\* POST /auth/forgot-password, with or without an e-mail queue and with a
\* delivery that fails or not
RequestPasswordResetVia(raw, draw, queue, fails) ==
  LET email == ToLowerCase(raw)
      id == FindByEmail(users, email)
      code == GenerateCode(draw)
  IN
  /\ OtherUnchanged /\ UNCHANGED <<now, nextId, held>>
  /\ IF id = NoUser
       THEN /\ resp' = [op |-> "forgotPassword", email |-> email, status |-> 200,
                        message |-> ForgotPasswordMessage(users, email)]
            /\ UNCHANGED users
       ELSE /\ users' = SetPasswordResetCode(users, email, code, now + ResetMinutes)
            /\ resp' = IF DeliveryThrows(queue, fails)
                 THEN [op |-> "forgotPassword", email |-> email, status |-> 500,
                       message |-> "Internal server error",
                       sent |-> code, queue |-> queue, fails |-> fails]
                 ELSE [op |-> "forgotPassword", email |-> email, status |-> 200,
                       message |-> ForgotPasswordMessage(users, email),
                       sent |-> code, queue |-> queue, fails |-> fails]

\* POST /auth/forgot-password with a queue that takes the job
RequestPasswordReset(raw, draw) == RequestPasswordResetVia(raw, draw, TRUE, FALSE)

\* POST /auth/verify-reset-code
VerifyResetCode(raw, code) ==
  LET email == ToLowerCase(raw)
      id == VerifyPasswordResetCode(users, email, code, now)
  IN
  /\ OtherUnchanged /\ UNCHANGED <<now, users, nextId, held>>
  /\ IF id = NoUser
       THEN resp' = [op |-> "verifyResetCode", email |-> email, code |-> code,
                     status |-> 400, message |-> "Invalid or expired reset code"]
       ELSE resp' = [op |-> "verifyResetCode", email |-> email, code |-> code,
                     status |-> 200,
                     message |-> "Code verified. You can now set your new password.",
                     token |-> ResetToken(users, id, now)]

\* POST /auth/reset-password
ResetPasswordWithToken(token, newPassword) ==
  LET message == ResetWithTokenCheck(users, token, now) IN
  /\ OtherUnchanged /\ UNCHANGED <<now, nextId, held>>
  /\ resp' = [op |-> "resetPassword", presented |-> token, password |-> newPassword,
              status |-> IF message = "Password reset successfully" THEN 200 ELSE 400,
              message |-> message]
  /\ users' = IF message = "Password reset successfully"
                THEN ResetWithTokenUpdate(users, token, newPassword)
                ELSE users

\* PUT /auth/profile for the account userId: UserService.updateProfile with
\* the body updateProfileSchema lets through
UpdateProfile(userId, name) ==
  /\ OtherUnchanged /\ UNCHANGED <<now, nextId, held>>
  /\ IF FindById(users, userId) = NoUser
       THEN /\ resp' = [op |-> "updateProfile", userId |-> userId, status |-> 404,
                        message |-> "User not found"]
            /\ UNCHANGED users
       ELSE /\ users' = RepoUpdate(users, userId, UpdateProfileFields(name))
            /\ resp' = [op |-> "updateProfile", userId |-> userId, status |-> 200,
                        message |-> "Profile updated successfully",
                        user |-> [id |-> userId, row |-> PublicView(users'[userId])]]

\* DELETE /auth/account for the account userId: UserService.deleteAccount;
\* the clients of the account go with it (admin_id ... on delete cascade)
DeleteAccount(userId) ==
  /\ UNCHANGED <<nextClient, cache, inflight, now, nextId, held>>
  /\ IF FindById(users, userId) = NoUser
       THEN /\ resp' = [op |-> "deleteAccount", userId |-> userId, status |-> 404,
                        message |-> "User not found"]
            /\ UNCHANGED <<users, clients>>
       ELSE /\ users' = RepoDelete(users, userId)
            /\ clients' = [c \in {d \in DOMAIN clients : clients[d].adminId # userId}
                             |-> clients[c]]
            /\ resp' = [op |-> "deleteAccount", userId |-> userId, status |-> 200,
                        message |-> "Account deleted successfully"]

\* the caller of the last request keeps the token the response carried, in
\* place of the one it kept before
KeepToken ==
  /\ "token" \in DOMAIN resp
  /\ held' = {resp.token}
  /\ resp' = [op |-> "keep"]
  /\ UNCHANGED <<users, nextId, clients, nextClient, cache, now, inflight>>

\* time passes
Tick ==
  /\ now + TickMinutes <= MaxTime
  /\ now' = now + TickMinutes
  /\ resp' = [op |-> "tick"]
  /\ UNCHANGED <<users, nextId, clients, nextClient, cache, held, inflight>>

----------------------------------------------------------------------------
(* Specification of the auth routes, one request at a time *)

EmptyTable == [i \in {} |-> NoUser]

NoRequests == [p \in {} |-> NoUser]

\* the store holds no account, or the super admin the seeding script made,
\* whom an operator may have deactivated
InitUsers == {EmptyTable} \cup {[i \in {SeedId} |-> SuperAdminRow(a)] : a \in BOOLEAN}

InitStore ==
  /\ users \in InitUsers
  /\ nextId = Cardinality(DOMAIN users)
  /\ clients = EmptyTable
  /\ nextClient = 0
  /\ cache = EmptyTable
  /\ held = {}
  /\ now = 0
  /\ resp = [op |-> "none"]

Init == InitStore /\ inflight = NoRequests

Next ==
  \/ \E raw \in SameEmails, draw \in RandomDraws :
       Register(raw, "Passw0rd1", "Atelier", draw)
  \/ \E raw \in RawEmails, code \in SubmittedCodes : VerifyEmail(raw, code)
  \/ \E raw \in RawEmails, draw \in RandomDraws : ResendVerificationEmail(raw, draw)
  \/ \E raw \in RawEmails, pw \in Passwords : Login(raw, pw)
  \/ \E id \in UserIds : DeleteAccount(id)
  \/ Tick

Spec == Init /\ [][Next]_vars

(* Specification of all the auth routes together, on fewer inputs *)

FewEmails == {"A@x.io", "b@x.io"}

OneDraw == {23456}

FewCodes == {GenerateCode(23456), GenerateCode(554321)}

NextAll ==
  \/ \E raw \in SameEmails, draw \in OneDraw :
       Register(raw, "Passw0rd1", "Atelier", draw)
  \/ \E raw \in FewEmails, code \in FewCodes : VerifyEmail(raw, code)
  \/ \E raw \in FewEmails, draw \in OneDraw : ResendVerificationEmail(raw, draw)
  \/ \E raw \in FewEmails, pw \in Passwords : Login(raw, pw)
  \/ \E raw \in FewEmails, draw \in OneDraw : RequestPasswordReset(raw, draw)
  \/ \E raw \in FewEmails, code \in FewCodes : VerifyResetCode(raw, code)
  \/ \E token \in Presentable, pw \in Passwords : ResetPasswordWithToken(token, pw)
  \/ \E id \in UserIds : UpdateProfile(id, "Boutique")
  \/ \E id \in UserIds : DeleteAccount(id)
  \/ Tick

InitAll == Init /\ users = EmptyTable

SpecAll == InitAll /\ [][NextAll]_vars

(* Specification of the password-reset routes for the seeded account, with *)
(* a caller that keeps tokens                                              *)

SeedEmail == {"b@x.io"}

NextReset ==
  \/ \E raw \in SeedEmail, pw \in Passwords : Login(raw, pw)
  \/ \E raw \in SeedEmail, draw \in OneDraw : RequestPasswordReset(raw, draw)
  \/ \E raw \in SeedEmail, code \in FewCodes : VerifyResetCode(raw, code)
  \/ \E token \in Presentable, pw \in Passwords : ResetPasswordWithToken(token, pw)
  \/ \E id \in UserIds : DeleteAccount(id)
  \/ KeepToken
  \/ Tick

InitReset == Init /\ users = [i \in {SeedId} |-> SuperAdminRow(TRUE)]

SpecReset == InitReset /\ [][NextReset]_vars

----------------------------------------------------------------------------
(* Concurrent requests: register, resend-verification and verify-email,    *)
(* one step per database statement.  Node runs a handler without           *)
(* interruption between two awaits, so the steps of requests in flight     *)
(* interleave at the statements and nowhere else.                          *)

Procs == 1..MaxRequests

Idle == [pc |-> "idle"]

Pc(p) == inflight[p].pc

\* ids that registrations in flight may still take
Registering == Cardinality({p \in Procs : Pc(p) \in {"start", "create"} /\ inflight[p].op = "register"})

\* a request arrives and passes validateBody
Begin(p, op, raw, code, draw) ==
  /\ Pc(p) = "idle"
  /\ op = "register" => nextId + Registering < MaxUsers
  /\ op = "verifyEmail" => draw = 0
  /\ op # "verifyEmail" => code = NullCode
  /\ inflight' = [inflight EXCEPT ![p] =
       [pc |-> "start", op |-> op, email |-> ToLowerCase(raw), code |-> code,
        draw |-> draw, id |-> NoUser]]
  /\ UNCHANGED <<users, nextId, clients, nextClient, cache, held, now, resp>>

\* the request of p ends with this response
Respond(p, status, message) ==
  /\ resp' = [op |-> inflight[p].op, proc |-> p, email |-> inflight[p].email,
              code |-> inflight[p].code, status |-> status, message |-> message]
  /\ inflight' = [inflight EXCEPT ![p] = Idle]

Goto(p, pc, id) ==
  /\ inflight' = [inflight EXCEPT ![p].pc = pc, ![p].id = id]
  /\ UNCHANGED resp

ConcUnchanged == UNCHANGED <<clients, nextClient, cache, held, now>>

\* register: await this.userRepo.findByEmail(userData.email)
RegisterFind(p) ==
  /\ Pc(p) = "start" /\ inflight[p].op = "register"
  /\ ConcUnchanged /\ UserStoreUnchanged
  /\ IF FindByEmail(users, inflight[p].email) # NoUser
       THEN Respond(p, 409, "Email already registered")
       ELSE Goto(p, "create", NoUser)

\* register: await this.userRepo.create(...); the rejection of the insert by
\* the unique index is no AppError, and errorHandler answers it with 500
RegisterCreate(p) ==
  LET id == nextId + 1
      ins == InsertUser(users, id, NewUserRow(inflight[p].email, BcryptHash("Passw0rd1"), "Atelier"))
  IN
  /\ Pc(p) = "create"
  /\ ConcUnchanged
  /\ IF ins.ok
       THEN /\ users' = ins.users
            /\ nextId' = id
            /\ Goto(p, "setcode", id)
       ELSE /\ UserStoreUnchanged
            /\ Respond(p, 500, "Internal server error")

\* register and resend: await this.userRepo.setEmailVerificationCode(...)
StoreCode(p) ==
  /\ Pc(p) = "setcode"
  /\ ConcUnchanged /\ UNCHANGED nextId
  /\ users' = SetEmailVerificationCode(users, inflight[p].id,
                 GenerateCode(inflight[p].draw), now + VerificationMinutes)
  /\ IF inflight[p].op = "register"
       THEN Respond(p, 201, "User registered successfully")
       ELSE Respond(p, 200, "Verification email sent successfully")

\* resend: await this.userRepo.findByEmail(email) and the two early returns
ResendFind(p) ==
  LET id == FindByEmail(users, inflight[p].email) IN
  /\ Pc(p) = "start" /\ inflight[p].op = "resend"
  /\ ConcUnchanged /\ UserStoreUnchanged
  /\ IF id = NoUser
       THEN Respond(p, 200, "If the email exists, a verification code has been sent")
       ELSE IF users[id].isEmailVerified
         THEN Respond(p, 400, "Email is already verified")
         ELSE Goto(p, "setcode", id)

\* verify-email: the select of verifyEmailWithCode and its checks
VerifyFind(p) ==
  LET id == VerifyEmailLookup(users, inflight[p].email, inflight[p].code, now) IN
  /\ Pc(p) = "start" /\ inflight[p].op = "verifyEmail"
  /\ ConcUnchanged /\ UserStoreUnchanged
  /\ IF id = NoUser
       THEN Respond(p, 400, "Invalid or expired verification code")
       ELSE Goto(p, "mark", id)

\* verify-email: the update of verifyEmailWithCode
VerifyMark(p) ==
  /\ Pc(p) = "mark"
  /\ ConcUnchanged /\ UNCHANGED nextId
  /\ users' = MarkVerified(users, inflight[p].id)
  /\ Respond(p, 200, "Email verified successfully")

NextConc ==
  \/ \E p \in Procs, op \in {"register", "resend", "verifyEmail"}, raw \in SameEmails,
          code \in FewCodes \cup {NullCode}, draw \in RandomDraws \cup {0} :
       Begin(p, op, raw, code, draw)
  \/ \E p \in Procs : RegisterFind(p)
  \/ \E p \in Procs : RegisterCreate(p)
  \/ \E p \in Procs : StoreCode(p)
  \/ \E p \in Procs : ResendFind(p)
  \/ \E p \in Procs : VerifyFind(p)
  \/ \E p \in Procs : VerifyMark(p)

InitConc == InitStore /\ users = EmptyTable /\ inflight = [p \in Procs |-> Idle]

SpecConc == InitConc /\ [][NextConc]_vars

----------------------------------------------------------------------------
(* SimpleCache (config/cache) *)

\* SimpleCache.get, the value: a hit unless the key is absent or Date.now()
\* is past the entry's expiry
CacheHit(c, key, t) == key \in DOMAIN c /\ ~(t > c[key].expires)

\* SimpleCache.get, the map afterwards: an expired entry is deleted
CacheAfterGet(c, key, t) ==
  IF key \in DOMAIN c /\ t > c[key].expires
    THEN [k \in DOMAIN c \ {key} |-> c[k]]
    ELSE c

\* SimpleCache.set
CacheSet(c, key, value, ttl, t) ==
  [k \in DOMAIN c \cup {key} |->
     IF k = key THEN [value |-> value, expires |-> t + ttl] ELSE c[k]]

\* SimpleCache.delete
CacheDelete(c, key) == [k \in DOMAIN c \ {key} |-> c[k]]

\* ClientService.getCacheKey: `client:${type}:${params.join(':')}`
GetCacheKey(type, params) == <<"client", type>> \o params

----------------------------------------------------------------------------
(* clients table and ClientRepository *)

\* names and search terms, as sequences of characters
NoSearch == << >>

\* lower case of the letters in use
LowerChar(ch) == IF ch = "A" THEN "a" ELSE IF ch = "B" THEN "b" ELSE ch

\* ilike(clients.name, `%${search}%`): the name contains the term, whatever
\* the case
Ilike(name, search) ==
  \E k \in 0..(Len(name) - Len(search)) :
     \A j \in 1..Len(search) : LowerChar(name[k + j]) = LowerChar(search[j])

\* findById filtering on the record id alone
ClientFindByIdAnyOwner(cs, id, adminId) == IF id \in DOMAIN cs THEN id ELSE NoUser

\* ClientRepository.findById: where id = ? and admin_id = ?
ClientFindById(cs, id, adminId) ==
  IF id \in DOMAIN cs /\ cs[id].adminId = adminId THEN id ELSE NoUser

\* the ids of the rows of an owner that a search keeps
ClientMatches(cs, adminId, search) ==
  { c \in DOMAIN cs :
      /\ cs[c].adminId = adminId
      /\ search # NoSearch => Ilike(cs[c].name, search) }

\* orderBy(desc(clients.createdAt))
RECURSIVE NewestFirst(_, _)
NewestFirst(cs, ids) ==
  IF ids = {} THEN << >>
  ELSE LET newest == CHOOSE c \in ids : \A d \in ids : cs[d].createdAt <= cs[c].createdAt
       IN <<cs[newest]>> \o NewestFirst(cs, ids \ {newest})

\* ClientRepository.findByAdminId: the rows of the owner, newest first, from
\* offset on and limit at most
ClientFindByAdminId(cs, adminId, offset, limit, search) ==
  LET rows == NewestFirst(cs, ClientMatches(cs, adminId, search))
      last == IF offset + limit < Len(rows) THEN offset + limit ELSE Len(rows)
  IN SubSeq(rows, offset + 1, last)

\* ClientRepository.countByAdminId
ClientCountByAdminId(cs, adminId, search) == Cardinality(ClientMatches(cs, adminId, search))

\* an insert that does not look at the reference of admin_id
ClientInsertNoReference(cs, us, id, adminId, name) ==
  [ok |-> TRUE,
   clients |-> [c \in DOMAIN cs \cup {id} |->
      IF c = id THEN [id |-> id, adminId |-> adminId, name |-> name, createdAt |-> id]
                ELSE cs[c]]]

\* ClientRepository.create: the insert fails when admin_id references no user
ClientInsert(cs, us, id, adminId, name) ==
  IF adminId \notin DOMAIN us
    THEN [ok |-> FALSE, clients |-> cs]
    ELSE [ok |-> TRUE,
          clients |-> [c \in DOMAIN cs \cup {id} |->
             IF c = id THEN [id |-> id, adminId |-> adminId, name |-> name, createdAt |-> id]
                       ELSE cs[c]]]

\* ClientRepository.update: where id = ? and admin_id = ?
ClientUpdate(cs, id, adminId, name) ==
  IF ClientFindById(cs, id, adminId) # NoUser THEN [cs EXCEPT ![id].name = name] ELSE cs

\* ClientRepository.delete: where id = ? and admin_id = ?
ClientDelete(cs, id, adminId) ==
  IF ClientFindById(cs, id, adminId) # NoUser THEN [c \in DOMAIN cs \ {id} |-> cs[c]] ELSE cs

\* ClientRepository.getStats: both counts are of all the owner's rows, the
\* 30-day filter being commented out
ClientGetStats(cs, adminId) ==
  LET total == ClientCountByAdminId(cs, adminId, NoSearch) IN
  [total |-> total, recent |-> total, growth |-> IF total > 0 THEN "100.0" ELSE "0"]

----------------------------------------------------------------------------
(* The client routes behind authenticate, for the principal adminId: the  *)
(* controller, ClientService and the cache                                 *)

ClientUnchanged == UNCHANGED <<users, nextId, held, now, inflight>>

NotFound(op, adminId, id) ==
  [op |-> op, adminId |-> adminId, id |-> id, status |-> 404, message |-> "Client not found"]

\* POST /clients
CreateClient(adminId, name) ==
  LET id == nextClient + 1
      ins == ClientInsert(clients, users, id, adminId, name)
  IN
  /\ ClientUnchanged
  /\ nextClient < MaxClients
  /\ IF ins.ok
       THEN /\ clients' = ins.clients
            /\ nextClient' = id
            /\ cache' = CacheDelete(CacheDelete(cache, GetCacheKey("list", <<adminId>>)),
                                    GetCacheKey("count", <<adminId>>))
            /\ resp' = [op |-> "createClient", adminId |-> adminId, status |-> 201,
                        message |-> "Client created successfully",
                        data |-> <<ins.clients[id]>>]
       ELSE /\ UNCHANGED <<clients, nextClient, cache>>
            /\ resp' = [op |-> "createClient", adminId |-> adminId, status |-> 400,
                        message |-> "Validation error"]

\* GET /clients?page&limit&search
GetClients(adminId, page, limit, search) ==
  LET key == GetCacheKey("list", <<adminId, page, limit, search>>)
      fresh == [clients |-> ClientFindByAdminId(clients, adminId, (page - 1) * limit, limit, search),
                pagination |-> [page |-> page, limit |-> limit,
                                total |-> ClientCountByAdminId(clients, adminId, search),
                                pages |-> (ClientCountByAdminId(clients, adminId, search)
                                             + limit - 1) \div limit]]
      result == IF CacheHit(cache, key, now) THEN cache[key].value ELSE fresh
  IN
  /\ ClientUnchanged /\ UNCHANGED <<clients, nextClient>>
  /\ cache' = IF CacheHit(cache, key, now) THEN cache
              ELSE CacheSet(CacheAfterGet(cache, key, now), key, fresh, CacheTtlMinutes, now)
  /\ resp' = [op |-> "getClients", adminId |-> adminId, query |-> <<page, limit, search>>,
              status |-> 200, data |-> result.clients, pagination |-> result.pagination]

\* GET /clients/:id
GetClientById(id, adminId) ==
  LET key == GetCacheKey("single", <<id, adminId>>)
      found == ClientFindById(clients, id, adminId)
  IN
  /\ ClientUnchanged /\ UNCHANGED <<clients, nextClient>>
  /\ IF CacheHit(cache, key, now)
       THEN /\ UNCHANGED cache
            /\ resp' = [op |-> "getClientById", adminId |-> adminId, id |-> id,
                        status |-> 200, data |-> <<cache[key].value>>]
       ELSE IF found = NoUser
         THEN /\ cache' = CacheAfterGet(cache, key, now)
              /\ resp' = NotFound("getClientById", adminId, id)
         ELSE /\ cache' = CacheSet(CacheAfterGet(cache, key, now), key, clients[id],
                                   CacheTtlMinutes, now)
              /\ resp' = [op |-> "getClientById", adminId |-> adminId, id |-> id,
                          status |-> 200, data |-> <<clients[id]>>]

\* the keys updateClient and deleteClient delete
Invalidated(c, id, adminId) ==
  CacheDelete(CacheDelete(CacheDelete(c, GetCacheKey("single", <<id, adminId>>)),
                          GetCacheKey("list", <<adminId>>)),
              GetCacheKey("count", <<adminId>>))

\* PUT /clients/:id
UpdateClient(id, adminId, name) ==
  LET after == ClientUpdate(clients, id, adminId, name) IN
  /\ ClientUnchanged /\ UNCHANGED nextClient
  /\ IF ClientFindById(clients, id, adminId) = NoUser
       THEN /\ UNCHANGED <<clients, cache>>
            /\ resp' = NotFound("updateClient", adminId, id)
       ELSE /\ clients' = after
            /\ cache' = CacheSet(Invalidated(cache, id, adminId),
                                 GetCacheKey("single", <<id, adminId>>), after[id],
                                 CacheTtlMinutes, now)
            /\ resp' = [op |-> "updateClient", adminId |-> adminId, id |-> id,
                        status |-> 200, data |-> <<after[id]>>]

\* DELETE /clients/:id
DeleteClient(id, adminId) ==
  /\ ClientUnchanged /\ UNCHANGED nextClient
  /\ IF ClientFindById(clients, id, adminId) = NoUser
       THEN /\ UNCHANGED <<clients, cache>>
            /\ resp' = NotFound("deleteClient", adminId, id)
       ELSE /\ clients' = ClientDelete(clients, id, adminId)
            /\ cache' = Invalidated(cache, id, adminId)
            /\ resp' = [op |-> "deleteClient", adminId |-> adminId, id |-> id,
                        status |-> 200, message |-> "Client deleted successfully",
                        data |-> << >>]

\* GET /clients/stats
GetClientStats(adminId) ==
  LET key == GetCacheKey("stats", <<adminId>>)
      stats == IF CacheHit(cache, key, now) THEN cache[key].value
               ELSE ClientGetStats(clients, adminId)
  IN
  /\ ClientUnchanged /\ UNCHANGED <<clients, nextClient>>
  /\ cache' = IF CacheHit(cache, key, now) THEN cache
              ELSE CacheSet(CacheAfterGet(cache, key, now), key, stats, CacheTtlMinutes, now)
  /\ resp' = [op |-> "getClientStats", adminId |-> adminId, status |-> 200,
              data |-> << >>, stats |-> stats]

(* Specification of the client routes for two owners *)

\* a business account that registered and verified its e-mail
VerifiedRow == [NewUserRow("a@x.io", BcryptHash("Passw0rd1"), "Atelier")
                  EXCEPT !.isEmailVerified = TRUE]

Owners == {1, 2}

ClientIds == 1..MaxClients

\* the owner whose dashboard asks for statistics
StatsOwners == {2}

Queries == {<<1, 50, NoSearch>>}

CreatedName == <<"A", "n", "n">>

UpdatedName == <<"B", "o", "b">>

InitClient ==
  /\ users = [i \in Owners |-> IF i = SeedId THEN SuperAdminRow(TRUE) ELSE VerifiedRow]
  /\ nextId = Cardinality(Owners)
  /\ clients = EmptyTable
  /\ nextClient = 0
  /\ cache = EmptyTable
  /\ held = {}
  /\ now = 0
  /\ inflight = NoRequests
  /\ resp = [op |-> "none"]

NextClient ==
  \/ \E a \in Owners : CreateClient(a, CreatedName)
  \/ \E a \in Owners, q \in Queries : GetClients(a, q[1], q[2], q[3])
  \/ \E a \in Owners, id \in ClientIds : GetClientById(id, a)
  \/ \E a \in Owners, id \in ClientIds : UpdateClient(id, a, UpdatedName)
  \/ \E a \in Owners, id \in ClientIds : DeleteClient(id, a)
  \/ \E a \in StatsOwners : GetClientStats(a)

SpecClient == InitClient /\ [][NextClient]_vars

----------------------------------------------------------------------------
(* authenticate (middleware/auth.middleware) *)

\* a request with neither a Bearer header nor an auth_token cookie
NoToken == [sig |-> <<"absent">>]

\* token.slice(-8): the end of the token is the end of its signature
Slice8(token) == token.sig

\* the claims jwt.verify hands back
Decoded(token) == [userId |-> token.userId, email |-> token.email, role |-> token.role,
                   iat |-> token.iat, exp |-> token.exp]

\* req.user = { id: decoded.userId, email: decoded.email, role: decoded.role }
Principal(decoded) == [id |-> decoded.userId, email |-> decoded.email, role |-> decoded.role]

\* authenticate, what it hands on: to the handler with req.user, or to the
\* error handler.  A cache entry for the end of the token stands in for
\* verifyToken
AuthResult(token) ==
  LET key == <<"auth", Slice8(token)>> IN
  IF token = NoToken
    THEN [next |-> "error", status |-> 401, message |-> "Access token required"]
  ELSE IF CacheHit(cache, key, now)
    THEN [next |-> "handler", user |-> Principal(cache[key].value)]
  ELSE IF JwtVerify(token, now)
    THEN [next |-> "handler", user |-> Principal(Decoded(token))]
  ELSE [next |-> "error", status |-> 401, message |-> "Invalid token"]

\* authenticate, what it leaves in the cache: without an entry the token is
\* verified and its claims are cached for 5 minutes
AuthCache(token) ==
  LET key == <<"auth", Slice8(token)>> IN
  IF token = NoToken THEN cache
  ELSE IF CacheHit(cache, key, now) THEN cache
  ELSE IF JwtVerify(token, now)
    THEN CacheSet(CacheAfterGet(cache, key, now), key, Decoded(token),
                  CacheTtlMinutes, now)
  ELSE CacheAfterGet(cache, key, now)

\* authenticate alone, in front of a handler that does nothing
Authenticate(token) ==
  /\ UNCHANGED <<users, nextId, clients, nextClient, held, now, inflight>>
  /\ cache' = AuthCache(token)
  /\ resp' = [op |-> "authenticate", presented |-> token] @@ AuthResult(token)

(* The profile routes behind authenticate: GET /auth/profile, PUT         *)
(* /auth/profile and DELETE /auth/account                                  *)

\* the value of a property the object does not have
UndefinedId == -1

\* UserController: (req as AuthenticatedRequest).user.userId
ControllerUserId(user) ==
  IF "userId" \in DOMAIN user THEN user.userId ELSE UndefinedId

\* userRepo.findById(userId): the row, no row, or, for eq(users.id,
\* undefined), what the driver makes of an undefined parameter: it compares
\* with NULL and finds no row, or it refuses the statement
FindByIdOutcomes(us, userId) ==
  IF userId = UndefinedId THEN {"none", "throws"}
  ELSE IF FindById(us, userId) = NoUser THEN {"none"}
  ELSE {"found"}

\* what a profile route answers when the service did not get to its result
ProfileFailure(op, token, outcome) ==
  IF outcome = "none"
    THEN [op |-> op, presented |-> token, status |-> 404, message |-> "User not found"]
    ELSE [op |-> op, presented |-> token, status |-> 500,
          message |-> "Internal server error"]

\* GET /auth/profile
GetProfileRoute(token) ==
  LET a == AuthResult(token) IN
  /\ UNCHANGED <<users, nextId, clients, nextClient, held, now, inflight>>
  /\ cache' = AuthCache(token)
  /\ IF a.next = "error"
       THEN resp' = [op |-> "getProfile", presented |-> token, status |-> a.status,
                     message |-> a.message]
       ELSE LET userId == ControllerUserId(a.user) IN
            \E outcome \in FindByIdOutcomes(users, userId) :
              IF outcome = "found"
                THEN resp' = [op |-> "getProfile", presented |-> token, status |-> 200,
                              message |-> "Profile retrieved successfully",
                              user |-> [id |-> userId, row |-> PublicView(users[userId])]]
                ELSE resp' = ProfileFailure("getProfile", token, outcome)

\* PUT /auth/profile
UpdateProfileRoute(token, name) ==
  LET a == AuthResult(token) IN
  /\ UNCHANGED <<nextId, clients, nextClient, held, now, inflight>>
  /\ cache' = AuthCache(token)
  /\ IF a.next = "error"
       THEN /\ UNCHANGED users
            /\ resp' = [op |-> "updateProfile", presented |-> token, status |-> a.status,
                        message |-> a.message]
       ELSE LET userId == ControllerUserId(a.user) IN
            \E outcome \in FindByIdOutcomes(users, userId) :
              IF outcome = "found"
                THEN /\ users' = RepoUpdate(users, userId, UpdateProfileFields(name))
                     /\ resp' = [op |-> "updateProfile", presented |-> token,
                                 status |-> 200,
                                 message |-> "Profile updated successfully",
                                 user |-> [id |-> userId,
                                           row |-> PublicView(users'[userId])]]
                ELSE /\ UNCHANGED users
                     /\ resp' = ProfileFailure("updateProfile", token, outcome)

\* DELETE /auth/account; the clients of the account go with it
DeleteAccountRoute(token) ==
  LET a == AuthResult(token) IN
  /\ UNCHANGED <<nextId, nextClient, held, now, inflight>>
  /\ cache' = AuthCache(token)
  /\ IF a.next = "error"
       THEN /\ UNCHANGED <<users, clients>>
            /\ resp' = [op |-> "deleteAccount", presented |-> token, status |-> a.status,
                        message |-> a.message]
       ELSE LET userId == ControllerUserId(a.user) IN
            \E outcome \in FindByIdOutcomes(users, userId) :
              IF outcome = "found"
                THEN /\ users' = RepoDelete(users, userId)
                     /\ clients' = [c \in {d \in DOMAIN clients :
                                              clients[d].adminId # userId}
                                      |-> clients[c]]
                     /\ resp' = [op |-> "deleteAccount", presented |-> token,
                                 status |-> 200,
                                 message |-> "Account deleted successfully"]
                ELSE /\ UNCHANGED <<users, clients>>
                     /\ resp' = ProfileFailure("deleteAccount", token, outcome)

\* the e-mail address of the business account of the store
OwnerEmails == {"a@x.io"}

(* Specification of the profile routes for two verified accounts *)

NextProfile ==
  \/ \E raw \in OwnerEmails, pw \in Passwords : Login(raw, pw)
  \/ KeepToken
  \/ \E token \in Presentable \cup {NoToken} : GetProfileRoute(token)
  \/ \E token \in Presentable \cup {NoToken} : UpdateProfileRoute(token, "Maison")
  \/ \E token \in Presentable \cup {NoToken} : DeleteAccountRoute(token)
  \/ Tick

SpecProfile == InitClient /\ [][NextProfile]_vars

(* Specification of authenticate for the super admin's session tokens *)

NextAuth ==
  \/ \E raw \in SeedEmail, pw \in Passwords : Login(raw, pw)
  \/ KeepToken
  \/ \E token \in Presentable \cup {NoToken} : Authenticate(token)
  \/ Tick

SpecAuth == InitReset /\ [][NextAuth]_vars

(* Specification of the two kinds of token for the seeded account: the   *)
(* password-reset routes, login and authenticate                          *)

NextCred ==
  \/ \E raw \in SeedEmail, pw \in Passwords : Login(raw, pw)
  \/ \E raw \in SeedEmail, draw \in OneDraw : RequestPasswordReset(raw, draw)
  \/ \E raw \in SeedEmail, code \in FewCodes : VerifyResetCode(raw, code)
  \/ \E token \in Presentable, pw \in Passwords : ResetPasswordWithToken(token, pw)
  \/ \E token \in Presentable : Authenticate(token)
  \/ Tick

SpecCred == InitReset /\ [][NextCred]_vars

(* Specification of forgot-password for two accounts and a stranger *)

\* the addresses of the accounts and the address of a stranger
ForgotEmails == RawEmails \cup {"c@x.io"}

NextForgot ==
  \/ \E raw \in ForgotEmails, draw \in RandomDraws : RequestPasswordReset(raw, draw)
  \/ \E raw \in ForgotEmails, code \in SubmittedCodes : VerifyResetCode(raw, code)
  \/ \E token \in Presentable : ResetPasswordWithToken(token, "Passw0rd1")
  \/ Tick

SpecForgot == InitClient /\ [][NextForgot]_vars

(* Specification of the requests that send a code, with every way the    *)
(* delivery can go                                                         *)

NextDelivery ==
  \/ \E raw \in SameEmails, draw \in OneDraw, queue \in BOOLEAN, fails \in BOOLEAN :
       RegisterVia(raw, "Passw0rd1", "Atelier", draw, queue, fails)
  \/ \E raw \in FewEmails, code \in FewCodes : VerifyEmail(raw, code)
  \/ \E raw \in FewEmails, draw \in OneDraw, queue \in BOOLEAN, fails \in BOOLEAN :
       ResendVerificationEmailVia(raw, draw, queue, fails)
  \/ \E raw \in FewEmails, draw \in OneDraw, queue \in BOOLEAN, fails \in BOOLEAN :
       RequestPasswordResetVia(raw, draw, queue, fails)
  \/ \E id \in UserIds : DeleteAccount(id)
  \/ Tick

SpecDelivery == InitAll /\ [][NextDelivery]_vars

(* POST /clients behind authenticate *)

\* authenticate, then ClientController.createClient with req.user.id
CreateClientRoute(token, name) ==
  LET a == AuthResult(token)
      id == nextClient + 1
  IN
  /\ ClientUnchanged
  /\ nextClient < MaxClients
  /\ IF a.next = "error"
       THEN /\ UNCHANGED <<clients, nextClient>>
            /\ cache' = AuthCache(token)
            /\ resp' = [op |-> "createClient", presented |-> token, status |-> a.status,
                        message |-> a.message]
       ELSE LET adminId == a.user.id
                ins == ClientInsert(clients, users, id, adminId, name)
            IN
            IF ins.ok
              THEN /\ clients' = ins.clients
                   /\ nextClient' = id
                   /\ cache' = CacheDelete(CacheDelete(AuthCache(token),
                                                       GetCacheKey("list", <<adminId>>)),
                                           GetCacheKey("count", <<adminId>>))
                   /\ resp' = [op |-> "createClient", presented |-> token,
                               adminId |-> adminId, status |-> 201,
                               message |-> "Client created successfully",
                               data |-> <<ins.clients[id]>>]
              ELSE /\ UNCHANGED <<clients, nextClient>>
                   /\ cache' = AuthCache(token)
                   /\ resp' = [op |-> "createClient", presented |-> token,
                               adminId |-> adminId, status |-> 400,
                               message |-> "Validation error"]

(* Specification of accounts that own clients and go away *)

NextOwnership ==
  \/ \E raw \in OwnerEmails : Login(raw, "Passw0rd1")
  \/ KeepToken
  \/ \E token \in Received : CreateClientRoute(token, CreatedName)
  \/ CreateClient(SeedId, CreatedName)
  \/ \E id \in ClientIds, a \in Owners : DeleteClient(id, a)
  \/ \E id \in Owners : DeleteAccount(id)
  \/ Tick

SpecOwnership == InitClient /\ [][NextOwnership]_vars

(* errorHandler (middleware/error.middleware) *)

\* NODE_ENV: z.enum(['development', 'production', 'test'])
Envs == {"development", "production", "test"}

\* config.app.isProduction
IsProduction(env) == env = "production"

NoErrors == << >>

\* what a handler may throw: a ZodError, an AppError with its status code, or
\* any other Error with its name, its code, its message and its stack
ThrownMessages ==
  {"User not found", "Failed to update user", "connect ECONNREFUSED",
   "duplicate key value violates unique constraint"}

Thrown ==
  [class : {"ZodError"}, name : {"ZodError"}, code : {0}, statusCode : {0},
   message : {"Invalid input"}, stack : {"ZodError at validate"}]
  \cup [class : {"AppError"}, name : {"Error"}, code : {0},
        statusCode : {400, 401, 404, 409, 500},
        message : ThrownMessages, stack : {"Error at service"}]
  \cup [class : {"Error"}, name : {"Error", "TypeError", "JsonWebTokenError",
                "TokenExpiredError", "CastError", "MongoServerError"}, code : {0, 11000}, statusCode : {0},
        message : ThrownMessages, stack : {"Error at driver"}]

\* errorHandler: the status, the message and the errors of the response
ErrorHandler(err, env) ==
  IF err.class = "ZodError"
    THEN [status |-> 422, message |-> "Validation failed", errors |-> <<"issues">>]
  ELSE IF err.class = "AppError"
    THEN [status |-> err.statusCode, message |-> err.message, errors |-> NoErrors]
  ELSE IF err.name = "JsonWebTokenError"
    THEN [status |-> 401, message |-> "Invalid token", errors |-> NoErrors]
  ELSE IF err.name = "TokenExpiredError"
    THEN [status |-> 401, message |-> "Token expired", errors |-> NoErrors]
  ELSE IF err.name = "CastError"
    THEN [status |-> 400, message |-> "Invalid ID format", errors |-> NoErrors]
  ELSE IF err.name = "MongoServerError" /\ err.code = 11000
    THEN [status |-> 409, message |-> "Duplicate field value", errors |-> NoErrors]
  ELSE [status |-> 500,
        message |-> IF IsProduction(env) THEN "Internal server error" ELSE err.message,
        errors |-> IF IsProduction(env) THEN NoErrors ELSE <<err.stack>>]

\* a handler threw err in a process started with NODE_ENV = env
HandleError(err, env) ==
  /\ UNCHANGED <<users, nextId, clients, nextClient, cache, held, now, inflight>>
  /\ resp' = [op |-> "errorHandler", err |-> err, env |-> env]
               @@ ErrorHandler(err, env)

(* Specification of errorHandler for every error and environment *)

NextErrors == \E err \in Thrown, env \in Envs : HandleError(err, env)

SpecErrors == InitClient /\ [][NextErrors]_vars

(* Concurrent resend-verification and forgot-password for one account,   *)
(* one step per database statement, with the clock moving in between      *)

\* the account register left behind at time 0: not verified, its code on file
RegisteredRow ==
  [NewUserRow("a@x.io", BcryptHash("Passw0rd1"), "Atelier")
     EXCEPT !.emailVerificationCode = GenerateCode(23456),
            !.emailVerificationExpiresAt = VerificationMinutes]

\* a request for the account arrives and passes validateBody
RaceBegin(p, op) ==
  /\ Pc(p) = "idle"
  /\ inflight' = [inflight EXCEPT ![p] =
       [pc |-> "start", op |-> op, email |-> "a@x.io", draw |-> 0,
        expiresAt |-> NullTime, id |-> NoUser]]
  /\ resp' = [op |-> "begin", proc |-> p]
  /\ UNCHANGED <<nextId, clients, nextClient, cache, held, users, now>>

\* await this.userRepo.findByEmail(email), the early returns, and, up to the
\* call of the repository, the code drawn and the expiry computed from the
\* clock
RaceFind(p, draw) ==
  LET id == FindByEmail(users, inflight[p].email)
      op == inflight[p].op
  IN
  /\ Pc(p) = "start"
  /\ UNCHANGED <<nextId, clients, nextClient, cache, held, users, now>>
  /\ IF id = NoUser
       THEN /\ inflight' = [inflight EXCEPT ![p].pc = "done"]
            /\ resp' = [op |-> op, proc |-> p, email |-> inflight[p].email,
                        status |-> 200,
                        message |-> IF op = "resend"
                          THEN "If the email exists, a verification code has been sent"
                          ELSE "If the email exists, a reset code has been sent"]
       ELSE IF op = "resend" /\ users[id].isEmailVerified
         THEN /\ inflight' = [inflight EXCEPT ![p].pc = "done"]
              /\ resp' = [op |-> op, proc |-> p, email |-> inflight[p].email,
                          status |-> 400, message |-> "Email is already verified"]
         ELSE /\ inflight' = [inflight EXCEPT ![p].pc = "store", ![p].id = id,
                                              ![p].draw = draw,
                                              ![p].expiresAt = now +
                                                (IF op = "resend"
                                                   THEN VerificationMinutes
                                                   ELSE ResetMinutes)]
              /\ resp' = [op |-> "find", proc |-> p]

\* await this.userRepo.setEmailVerificationCode(...) or
\* await this.userRepo.setPasswordResetCode(...): one update statement
RaceStore(p) ==
  LET op == inflight[p].op
      code == GenerateCode(inflight[p].draw)
  IN
  /\ Pc(p) = "store"
  /\ UNCHANGED <<nextId, clients, nextClient, cache, held, now>>
  /\ users' = IF op = "resend"
       THEN SetEmailVerificationCode(users, inflight[p].id, code, inflight[p].expiresAt)
       ELSE SetPasswordResetCode(users, inflight[p].email, code, inflight[p].expiresAt)
  /\ inflight' = [inflight EXCEPT ![p].pc = "done"]
  /\ resp' = [op |-> op, proc |-> p, email |-> inflight[p].email, status |-> 200,
              message |-> IF op = "resend" THEN "Verification email sent successfully"
                          ELSE "Password reset code sent to your email",
              sent |-> code, expiresAt |-> inflight[p].expiresAt]

NextRace ==
  \/ \E p \in Procs, op \in {"resend", "forgotPassword"} : RaceBegin(p, op)
  \/ \E p \in Procs, draw \in RandomDraws : RaceFind(p, draw)
  \/ \E p \in Procs : RaceStore(p)
  \/ Tick

InitRace ==
  /\ users = [i \in {SeedId} |-> RegisteredRow]
  /\ nextId = 1
  /\ clients = EmptyTable
  /\ nextClient = 0
  /\ cache = EmptyTable
  /\ held = {}
  /\ now = 0
  /\ inflight = [p \in Procs |-> Idle]
  /\ resp = [op |-> "none"]

SpecRace == InitRace /\ [][NextRace]_vars

(* Concurrent getClientById, updateClient and deleteClient for one client *)
(* of one owner, one step per await                                        *)

\* the owner and the client the requests are about
RaceOwner == 2

RaceClient == 1

\* requests of op that have returned success
Returned(op) ==
  {q \in Procs : Pc(q) = "done" /\ inflight[q].op = op /\ inflight[q].status = 200}

\* the row of the client in the store, or none
StoredRow(cs, id, adminId) ==
  IF ClientFindById(cs, id, adminId) = NoUser THEN << >> ELSE <<cs[id]>>

\* the request of p ends with this status and this data
ClientRespond(p, status, data) ==
  /\ inflight' = [inflight EXCEPT ![p].pc = "done", ![p].status = status]
  /\ resp' = [op |-> inflight[p].op, proc |-> p, adminId |-> RaceOwner,
              id |-> RaceClient, status |-> status, data |-> data,
              after |-> inflight[p].after]

\* a request arrives; it is recorded which mutations had returned success by
\* then.  getClientById runs up to its first await: cache.get, and on a miss
\* the select is on its way
ClientBegin(p, op) ==
  LET key == GetCacheKey("single", <<RaceClient, RaceOwner>>)
      after == {m \in {"updateClient", "deleteClient"} : Returned(m) # {}}
      req == [pc |-> "exec", op |-> op, row |-> << >>, status |-> 0, after |-> after]
  IN
  /\ Pc(p) \in {"idle", "done"}
  /\ UNCHANGED <<users, nextId, nextClient, held, now, clients>>
  /\ IF op = "getClientById" /\ CacheHit(cache, key, now)
       THEN /\ UNCHANGED cache
            /\ inflight' = [inflight EXCEPT ![p] =
                             [req EXCEPT !.pc = "done", !.status = 200]]
            /\ resp' = [op |-> op, proc |-> p, adminId |-> RaceOwner,
                        id |-> RaceClient, status |-> 200,
                        data |-> <<cache[key].value>>, after |-> after]
       ELSE /\ cache' = IF op = "getClientById" THEN CacheAfterGet(cache, key, now)
                        ELSE cache
            /\ inflight' = [inflight EXCEPT ![p] = req]
            /\ resp' = [op |-> "begin", proc |-> p]

\* the database executes the statement of p: the select of findById, the
\* update of ClientRepository.update or the delete of ClientRepository.delete,
\* each returning the row it met
ClientExec(p) ==
  LET op == inflight[p].op
      after == IF op = "updateClient"
                 THEN ClientUpdate(clients, RaceClient, RaceOwner, UpdatedName)
               ELSE IF op = "deleteClient"
                 THEN ClientDelete(clients, RaceClient, RaceOwner)
               ELSE clients
  IN
  /\ Pc(p) = "exec"
  /\ UNCHANGED <<users, nextId, nextClient, held, now, cache>>
  /\ clients' = after
  /\ inflight' = [inflight EXCEPT ![p].pc = "then",
        ![p].row = IF op = "deleteClient" THEN StoredRow(clients, RaceClient, RaceOwner)
                   ELSE StoredRow(after, RaceClient, RaceOwner)]
  /\ resp' = [op |-> "exec", proc |-> p]

\* the handler of p goes on after its await: getClientById caches the row it
\* read, updateClient deletes its keys and caches the row it wrote,
\* deleteClient deletes its keys
ClientThen(p) ==
  LET op == inflight[p].op
      row == inflight[p].row
      key == GetCacheKey("single", <<RaceClient, RaceOwner>>)
  IN
  /\ Pc(p) = "then"
  /\ UNCHANGED <<users, nextId, nextClient, held, now, clients>>
  /\ IF row = << >>
       THEN /\ UNCHANGED cache
            /\ ClientRespond(p, 404, << >>)
       ELSE /\ cache' =
                 IF op = "getClientById"
                   THEN CacheSet(cache, key, row[1], CacheTtlMinutes, now)
                 ELSE IF op = "updateClient"
                   THEN CacheSet(Invalidated(cache, RaceClient, RaceOwner), key, row[1],
                                 CacheTtlMinutes, now)
                 ELSE Invalidated(cache, RaceClient, RaceOwner)
            /\ ClientRespond(p, 200, IF op = "deleteClient" THEN << >> ELSE row)

NextClientRace ==
  \/ \E p \in Procs, op \in {"getClientById", "updateClient", "deleteClient"} : ClientBegin(p, op)
  \/ \E p \in Procs : ClientExec(p)
  \/ \E p \in Procs : ClientThen(p)

InitClientRace ==
  /\ users = [i \in Owners |-> IF i = SeedId THEN SuperAdminRow(TRUE) ELSE VerifiedRow]
  /\ nextId = Cardinality(Owners)
  /\ clients = ClientInsert(EmptyTable, users, RaceClient, RaceOwner, CreatedName).clients
  /\ nextClient = 1
  /\ cache = EmptyTable
  /\ held = {}
  /\ now = 0
  /\ inflight = [p \in Procs |-> Idle]
  /\ resp = [op |-> "none"]

SpecClientRace == InitClientRace /\ [][NextClientRace]_vars

(* Specification of a registration followed by requests behind           *)
(* authenticate                                                            *)

NextSession ==
  \/ \E raw \in SameEmails, draw \in OneDraw :
       Register(raw, "Passw0rd1", "Atelier", draw)
  \/ \E raw \in FewEmails, code \in FewCodes : VerifyEmail(raw, code)
  \/ \E raw \in FewEmails, pw \in Passwords : Login(raw, pw)
  \/ KeepToken
  \/ \E token \in Received \cup {NoToken} : CreateClientRoute(token, CreatedName)
  \/ Tick

SpecSession == InitAll /\ [][NextSession]_vars

(* securityMiddleware (middleware/security.middleware) and the order of   *)
(* the middleware in app.ts                                                *)

\* (req as { user?: { role?: string } }).user?.role || 'guest'
RoleOf(req) ==
  IF "user" \in DOMAIN req /\ "role" \in DOMAIN req.user /\ req.user.role # "undefined"
    THEN req.user.role ELSE "guest"

\* the switch on the role: max of the sliding window of one minute
SlidingWindowMax(role, env) ==
  IF role = "super_admin" THEN 100
  ELSE IF role = "business" THEN 50
  ELSE IF env = "development" THEN 50 ELSE 10

\* a request to a route behind authenticate: app.use(securityMiddleware)
\* runs first, on the request as express hands it over, without a user, and
\* chooses the limit; the router runs authenticate after it
ProtectedRequest(token, env) ==
  LET req == [token |-> token]
      a == AuthResult(token)
  IN
  /\ UNCHANGED <<users, nextId, clients, nextClient, held, now, inflight>>
  /\ cache' = AuthCache(token)
  /\ resp' = [op |-> "request", presented |-> token, env |-> env,
              role |-> RoleOf(req), max |-> SlidingWindowMax(RoleOf(req), env),
              next |-> a.next]

(* Specification of the rate limit for the requests of two accounts *)

NextLimit ==
  \/ \E raw \in FewEmails, pw \in Passwords : Login(raw, pw)
  \/ \E token \in Received \cup {NoToken}, env \in Envs : ProtectedRequest(token, env)
  \/ Tick

SpecLimit == InitClient /\ [][NextLimit]_vars

(* Specification of the requests that issue a code, with the draws at     *)
(* the ends of the range of Math.random()                                  *)

\* Math.floor(Math.random() * 900000) at its least, in between, at its most
BoundaryDraws == {0, 23456, MaxDraw}

NextCodes ==
  \/ \E raw \in SameEmails, draw \in BoundaryDraws :
       Register(raw, "Passw0rd1", "Atelier", draw)
  \/ \E raw \in FewEmails, draw \in BoundaryDraws : ResendVerificationEmail(raw, draw)
  \/ \E raw \in FewEmails, draw \in BoundaryDraws : RequestPasswordReset(raw, draw)
  \/ Tick

SpecCodes == InitAll /\ [][NextCodes]_vars

----------------------------------------------------------------------------
(* Properties *)

\* the account stored under an e-mail address, if any
AccountsOf(us, email) == {i \in DOMAIN us : us[i].email = email}

\* a step of the request the response of which is resp'
Answered(op) == resp'.op = op

\* C3: verifyEmail(email, code) succeeds exactly when an account with that
\* e-mail exists, has a code and an expiry on file, the submitted code is the
\* stored code and now <= expiresAt; every failure is the generic 400
\* 'Invalid or expired verification code' and leaves the table as it was.
C3_VerifyEmailIff ==
  [][Answered("verifyEmail") =>
       /\ (resp'.status = 200) <=>
            \E i \in AccountsOf(users, resp'.email) :
               /\ users[i].emailVerificationCode # NullCode
               /\ users[i].emailVerificationExpiresAt # NullTime
               /\ users[i].emailVerificationCode = resp'.code
               /\ now <= users[i].emailVerificationExpiresAt
       /\ resp'.status # 200 =>
            /\ resp'.status = 400
            /\ resp'.message = "Invalid or expired verification code"
            /\ users' = users
    ]_vars

\* C3 witness: the stored code itself was submitted after its expiry and refused
C3_Witness ==
  /\ resp.op = "verifyEmail" /\ resp.status = 400
  /\ \E i \in AccountsOf(users, resp.email) :
       /\ users[i].emailVerificationCode = resp.code
       /\ now > users[i].emailVerificationExpiresAt

\* C4: in every reachable state every account has a verification code on file
\* exactly when it has a verification expiry on file, and a reset code exactly
\* when it has a reset expiry.
C4_CodeIffExpiry ==
  \A i \in DOMAIN users :
    /\ (users[i].emailVerificationCode # NullCode)
         <=> (users[i].emailVerificationExpiresAt # NullTime)
    /\ (users[i].passwordResetCode # NullCode)
         <=> (users[i].passwordResetExpiresAt # NullTime)

\* C4 witness: an account that holds a verification code and a reset code,
\* each with its expiry, after a forgot-password request
C4_Witness ==
  /\ resp.op = "forgotPassword"
  /\ \E i \in AccountsOf(users, resp.email) :
       /\ users[i].emailVerificationCode # NullCode
       /\ users[i].emailVerificationExpiresAt # NullTime
       /\ users[i].passwordResetCode # NullCode
       /\ users[i].passwordResetExpiresAt = now + ResetMinutes

\* C5: a successful verifyEmail leaves the account verified with neither code
\* nor expiry; no request makes a verified account unverified; and a
\* verifyEmail for an account that is already verified fails.
C5_VerifiedIsTerminal ==
  [][/\ (Answered("verifyEmail") /\ resp'.status = 200) =>
          \E i \in AccountsOf(users', resp'.email) :
             /\ users'[i].isEmailVerified
             /\ users'[i].emailVerificationCode = NullCode
             /\ users'[i].emailVerificationExpiresAt = NullTime
     /\ \A i \in DOMAIN users \cap DOMAIN users' :
          users[i].isEmailVerified => users'[i].isEmailVerified
     /\ (Answered("verifyEmail")
           /\ \E i \in AccountsOf(users, resp'.email) : users[i].isEmailVerified)
          => resp'.status = 400 /\ users' = users
    ]_vars

\* C5 witness: a verified account, logged in since, was sent through
\* verifyEmail again and refused
C5_Witness ==
  /\ resp.op = "verifyEmail" /\ resp.status = 400
  /\ \E i \in AccountsOf(users, resp.email) :
       /\ users[i].isEmailVerified
       /\ users[i].lastLoginAt # NullTime
       /\ resp.code = GenerateCode(23456)

\* C8: login answers with a session token exactly when the account exists, is
\* active, is verified and the password is the one that was hashed; otherwise
\* it throws UnauthorizedError and the table is as it was; on success
\* lastLoginAt becomes now and nothing else changes.
C8_LoginOnlyWhenAllowed ==
  [][Answered("login") =>
       LET allowed == { i \in AccountsOf(users, resp'.email) :
                          /\ users[i].isActive
                          /\ users[i].isEmailVerified
                          /\ users[i].password = BcryptHash(resp'.password) }
       IN
       /\ ("token" \in DOMAIN resp') <=> (allowed # {})
       /\ (resp'.status = 200) <=> (allowed # {})
       /\ allowed = {} => resp'.thrown = "UnauthorizedError" /\ users' = users
       /\ \A i \in allowed :
            /\ users' = [users EXCEPT ![i].lastLoginAt = now]
            /\ resp'.token.userId = i
    ]_vars

\* C8 witness: a login that succeeded later than the account was made
C8_Witness ==
  /\ resp.op = "login" /\ resp.status = 200 /\ now > 0
  /\ \E i \in AccountsOf(users, resp.email) :
       users[i].lastLoginAt = now /\ users[i].role = "business"

C10_ResetWithTokenIff ==
  [][Answered("resetPassword") =>
       LET token == resp'.presented
           good == /\ token.sig = Mac(token)
                   /\ token.purpose = "password_reset"
                   /\ now < token.iat + ResetTokenMinutes
       IN
       /\ token.userId \in DOMAIN users => ((resp'.status = 200) <=> good)
       /\ resp'.status = 200 =>
            /\ good
            /\ users' = [users EXCEPT ![token.userId] =
                 [@ EXCEPT !.password = BcryptHash(resp'.password),
                           !.passwordResetCode = NullCode,
                           !.passwordResetExpiresAt = NullTime]]
       /\ resp'.status # 200 =>
            /\ resp'.status = 400
            /\ resp'.message \in {"Invalid or expired reset token", "Invalid reset token",
                                  "Failed to reset password"}
            /\ users' = users
    ]_vars

\* C10 witness: a kept reset token of an existing account was presented when
\* its 5 minutes were over and was refused
C10_Witness ==
  /\ resp.op = "resetPassword" /\ resp.status = 400
  /\ resp.presented.sig = Mac(resp.presented)
  /\ resp.presented.purpose = "password_reset"
  /\ resp.presented.userId \in DOMAIN users
  /\ now >= resp.presented.iat + ResetTokenMinutes
  /\ resp.presented \in held

ClientOps == {"createClient", "getClients", "getClientById", "updateClient",
              "deleteClient", "getClientStats"}

\* the row with this id is missing or belongs to somebody else
NotOwned(cs, id, adminId) == id \notin DOMAIN cs \/ cs[id].adminId # adminId

\* C1: a client operation of an owner returns only rows of that owner and
\* leaves every row of another owner as it was; reading, updating or deleting
\* by id a row of another owner is answered 404 'Client not found' and changes
\* nothing, exactly as for an id that no row has
C1_OwnerIsolation ==
  [][resp'.op \in ClientOps =>
       /\ "data" \in DOMAIN resp' =>
            \A k \in 1..Len(resp'.data) : resp'.data[k].adminId = resp'.adminId
       /\ \A c \in DOMAIN clients :
            clients[c].adminId # resp'.adminId =>
              c \in DOMAIN clients' /\ clients'[c] = clients[c]
       /\ ( /\ resp'.op \in {"getClientById", "updateClient", "deleteClient"}
            /\ NotOwned(clients, resp'.id, resp'.adminId) ) =>
              /\ resp' = NotFound(resp'.op, resp'.adminId, resp'.id)
              /\ clients' = clients
    ]_vars

\* an owner with a row of their own was answered 404 for the id of a row
\* that another owner has
C1_Witness ==
  /\ resp.op \in {"getClientById", "updateClient", "deleteClient"}
  /\ resp.status = 404
  /\ resp.id \in DOMAIN clients
  /\ clients[resp.id].adminId # resp.adminId
  /\ \E c \in DOMAIN clients : clients[c].adminId = resp.adminId

\* C2: authenticate passes a request on only with a token whose signature is
\* that of its payload and which has not expired at that time, and the
\* principal it attaches is the identity in the token presented
C2_AuthenticateVerifies ==
  [][(Answered("authenticate") /\ resp'.next = "handler") =>
       /\ JwtVerify(resp'.presented, now)
       /\ resp'.user = Principal(resp'.presented)
    ]_vars

\* C6: in every reachable state, whatever the interleaving of a resend with a
\* verify-email for the same account, an account whose e-mail is verified has
\* no verification code on file
C6_NoCodeOnceVerified ==
  \A i \in DOMAIN users :
     users[i].isEmailVerified => users[i].emailVerificationCode = NullCode

\* C7: in any interleaving, a register that ends while an account with its
\* e-mail, not one it made itself, is stored ends with 409 and leaves the
\* accounts as they were, and no two accounts have the same e-mail
C7_DuplicateIsConflict ==
  [][\A p \in Procs :
       ( /\ Pc(p) # "idle"
         /\ inflight[p].op = "register"
         /\ inflight'[p] = Idle
         /\ inflight[p].id = NoUser
         /\ FindByEmail(users, inflight[p].email) # NoUser ) =>
           /\ resp'.status = 409
           /\ users' = users
           /\ \A a, b \in DOMAIN users' : users'[a].email = users'[b].email => a = b
    ]_vars

\* C11: verifyResetCode(email, code) succeeds exactly when an account with
\* that e-mail exists, has a reset code and an expiry on file, the submitted
\* code is the stored code and now <= expiresAt; on success the token carries
\* the account's id and the purpose 'password_reset' and is one that
\* resetPasswordWithToken accepts; success or not, the table is as it was, so
\* the same code passes again until it expires.
C11_VerifyResetCodeIff ==
  [][Answered("verifyResetCode") =>
       LET good == { i \in AccountsOf(users, resp'.email) :
                       /\ users[i].passwordResetCode # NullCode
                       /\ users[i].passwordResetExpiresAt # NullTime
                       /\ users[i].passwordResetCode = resp'.code
                       /\ now <= users[i].passwordResetExpiresAt }
       IN
       /\ (resp'.status = 200) <=> (good # {})
       /\ users' = users
       /\ \A i \in good :
            /\ resp'.token.userId = i
            /\ resp'.token.purpose = "password_reset"
            /\ JwtVerify(resp'.token, now)
            /\ ResetWithTokenCheck(users', resp'.token, now) = "Password reset successfully"
       /\ resp'.status # 200 =>
            /\ resp'.status = 400
            /\ resp'.message = "Invalid or expired reset code"
            /\ "token" \notin DOMAIN resp'
    ]_vars

\* C11 witness: the caller kept the reset token of a first verifyResetCode,
\* and a later verifyResetCode with the code of the same issuance succeeded
\* once more with a newer token
C11_Witness ==
  /\ resp.op = "verifyResetCode" /\ resp.status = 200
  /\ \E k \in held :
       /\ k.purpose = "password_reset"
       /\ k.userId = resp.token.userId
       /\ k.iat < resp.token.iat
       /\ users[k.userId].passwordResetCode = resp.code
       /\ users[k.userId].passwordResetExpiresAt - ResetMinutes <= k.iat

\* C12: a successful resetPasswordWithToken leaves the account with the hash
\* of the new password and with neither reset code nor expiry; a password
\* changes in no other way and a reset code comes on file only by a new
\* forgot-password, so that verifyResetCode fails for the account until then;
\* and login for an active verified account succeeds exactly with the
\* password that was hashed last, the new one and not the old one.
C12_ResetReturnsToIdle ==
  [][/\ (Answered("resetPassword") /\ resp'.status = 200) =>
          LET i == resp'.presented.userId IN
          /\ users'[i].password = BcryptHash(resp'.password)
          /\ users'[i].passwordResetCode = NullCode
          /\ users'[i].passwordResetExpiresAt = NullTime
     /\ \A i \in DOMAIN users \cap DOMAIN users' :
          /\ users'[i].password # users[i].password =>
               /\ Answered("resetPassword") /\ resp'.status = 200
               /\ resp'.presented.userId = i
          /\ (users[i].passwordResetCode = NullCode
                /\ users'[i].passwordResetCode # NullCode) => Answered("forgotPassword")
     /\ (Answered("verifyResetCode")
           /\ \E i \in AccountsOf(users, resp'.email) :
                 users[i].passwordResetCode = NullCode) => resp'.status = 400
     /\ Answered("login") =>
          \A i \in AccountsOf(users, resp'.email) :
             (users[i].isActive /\ users[i].isEmailVerified) =>
               ((resp'.status = 200) <=> (users[i].password = BcryptHash(resp'.password)))
    ]_vars

\* C12 witness: after a reset to a new password, with no reset code on file,
\* a login with the old password was refused
C12_Witness ==
  /\ resp.op = "login" /\ resp.status = 401
  /\ resp.password = "Passw0rd2"
  /\ \E i \in AccountsOf(users, resp.email) :
       /\ users[i].isActive /\ users[i].isEmailVerified
       /\ users[i].password = BcryptHash("Passw0rd1")
       /\ users[i].passwordResetCode = NullCode

\* a token as verifyResetCode signs it
IsResetToken(token) == token.sig = Mac(token) /\ token.purpose = "password_reset"

\* a token as register and login sign it
IsSessionToken(token) == token.sig = Mac(token) /\ token.purpose = "undefined"

\* C13: authenticate never passes a request on with a reset token that
\* verifyResetCode minted, and resetPasswordWithToken never succeeds with a
\* session token that register or login minted
C13_DistinctCredentials ==
  [][/\ (Answered("authenticate") /\ resp'.next = "handler") =>
          ~IsResetToken(resp'.presented)
     /\ (Answered("resetPassword") /\ resp'.status = 200) =>
          ~IsSessionToken(resp'.presented)
    ]_vars

\* C14: the status and the message of a forgot-password response are those
\* that any other e-mail would have got in the same state, whether or not an
\* account has it
C14_ForgotPasswordUniform ==
  [][Answered("forgotPassword") =>
       \A other \in RawEmails :
          /\ resp'.status = 200
          /\ resp'.message = ForgotPasswordMessage(users, ToLowerCase(other))
    ]_vars

\* C15: resend-verification answers 200 whatever the state of the account
C15_ResendAlways200 ==
  [][Answered("resend") => resp'.status = 200]_vars

\* C16: forgot-password for an e-mail without account changes no row and
\* sends no code; for an account it stores a code of 6 digits with the expiry
\* now + 15 minutes in place of whatever was there and changes nothing else,
\* in that row or any other; a reset code comes on file in no other way, and
\* verifyResetCode passes the stored code only, which is the one issued last.
C16_ForgotPasswordFrame ==
  [][/\ Answered("forgotPassword") =>
          LET ids == AccountsOf(users, resp'.email) IN
          /\ ids = {} => (users' = users /\ "sent" \notin DOMAIN resp')
          /\ \A i \in ids :
               /\ Len(resp'.sent) = 6
               /\ \A k \in 1..6 : resp'.sent[k] \in 0..9
               /\ users' = [users EXCEPT
                               ![i].passwordResetCode = resp'.sent,
                               ![i].passwordResetExpiresAt = now + ResetMinutes]
     /\ \A i \in DOMAIN users \cap DOMAIN users' :
          users'[i].passwordResetCode \notin {users[i].passwordResetCode, NullCode} =>
            /\ Answered("forgotPassword")
            /\ users'[i].passwordResetCode = resp'.sent
     /\ (Answered("verifyResetCode") /\ resp'.status = 200) =>
          \E i \in AccountsOf(users, resp'.email) :
             users[i].passwordResetCode = resp'.code
    ]_vars

\* C16 witness: a forgot-password stored its code for one account while
\* another account kept the code and the earlier expiry it had
C16_Witness ==
  /\ resp.op = "forgotPassword" /\ "sent" \in DOMAIN resp
  /\ \E i \in AccountsOf(users, resp.email), j \in DOMAIN users :
       /\ i # j
       /\ users[i].passwordResetCode = resp.sent
       /\ users[i].passwordResetExpiresAt = now + ResetMinutes
       /\ users[j].passwordResetCode \notin {NullCode, resp.sent}
       /\ users[j].passwordResetExpiresAt < now + ResetMinutes

\* C17: register stores for the new account, and resend for an unverified
\* account, the code it sends with the expiry now + 10 minutes in place of
\* whatever was there; a verification code or expiry is written in no other
\* way, and verifyEmail passes the stored code only, which is the one issued
\* last.
C17_VerificationIssuance ==
  [][/\ (Answered("register") /\ resp'.status = 201) =>
          LET i == resp'.user.id IN
          /\ i \notin DOMAIN users
          /\ users'[i].emailVerificationCode = resp'.sent
          /\ users'[i].emailVerificationExpiresAt = now + VerificationMinutes
     /\ Answered("resend") =>
          \A i \in AccountsOf(users, resp'.email) :
             ~users[i].isEmailVerified =>
               /\ "sent" \in DOMAIN resp'
               /\ users' = [users EXCEPT
                    ![i].emailVerificationCode = resp'.sent,
                    ![i].emailVerificationExpiresAt = now + VerificationMinutes]
     /\ \A i \in DOMAIN users' :
          ( /\ users'[i].emailVerificationCode # NullCode
            /\ \/ i \notin DOMAIN users
               \/ users'[i].emailVerificationCode # users[i].emailVerificationCode
               \/ users'[i].emailVerificationExpiresAt # users[i].emailVerificationExpiresAt ) =>
            /\ Answered("register") \/ Answered("resend")
            /\ users'[i].emailVerificationCode = resp'.sent
            /\ users'[i].emailVerificationExpiresAt = now + VerificationMinutes
     /\ (Answered("verifyEmail") /\ resp'.status = 200) =>
          \E i \in AccountsOf(users, resp'.email) :
             users[i].emailVerificationCode = resp'.code
    ]_vars

\* C17 witness: some time after the registration a resend put a code with a
\* new expiry on file
C17_Witness ==
  /\ resp.op = "resend" /\ "sent" \in DOMAIN resp /\ now > 0
  /\ \E i \in AccountsOf(users, resp.email) :
       /\ users[i].emailVerificationCode = resp.sent
       /\ users[i].emailVerificationExpiresAt = now + VerificationMinutes

\* C18: the token of a successful register carries the id, the e-mail and the
\* role of the account that register stored, as a valid session token, and
\* the account view in the response has no password field
C18_RegisterIdentity ==
  [][(Answered("register") /\ resp'.status = 201) =>
       LET i == resp'.user.id IN
       /\ i \in DOMAIN users' \ DOMAIN users
       /\ users'[i].email = resp'.email
       /\ resp'.token.userId = i
       /\ resp'.token.email = users'[i].email
       /\ resp'.token.role = users'[i].role
       /\ JwtVerify(resp'.token, now)
       /\ "password" \notin DOMAIN resp'.user.row
       /\ resp'.user.row.email = users'[i].email
    ]_vars

\* C18 witness: a business registered beside the super admin
C18_Witness ==
  /\ resp.op = "register" /\ resp.status = 201
  /\ resp.user.id # SeedId
  /\ resp.token.role = "business"
  /\ SeedId \in DOMAIN users

\* C19: a register, a resend or a forgot-password that stored a code and whose
\* delivery failed, on the queue or on SMTP, answers with its success status
\* and message, and the code is on file
C19_DeliveryNeverFails ==
  [][("sent" \in DOMAIN resp' /\ resp'.fails) =>
       \E i \in AccountsOf(users', resp'.email) :
          /\ Answered("register") =>
               /\ resp'.status = 201
               /\ resp'.message = "User registered successfully"
               /\ "token" \in DOMAIN resp'
               /\ users'[i].emailVerificationCode = resp'.sent
          /\ Answered("resend") =>
               /\ resp'.status = 200
               /\ resp'.message = "Verification email sent successfully"
               /\ users'[i].emailVerificationCode = resp'.sent
          /\ Answered("forgotPassword") =>
               /\ resp'.status = 200
               /\ resp'.message = "Password reset code sent to your email"
               /\ users'[i].passwordResetCode = resp'.sent
    ]_vars

\* C19 witness: without a queue, SMTP refused the mail of a resend, and the
\* resend answered 200 with its code on file
C19_Witness ==
  /\ resp.op = "resend" /\ "sent" \in DOMAIN resp
  /\ ~resp.queue /\ resp.fails
  /\ resp.status = 200
  /\ \E i \in AccountsOf(users, resp.email) : users[i].emailVerificationCode = resp.sent

\* C20: for an account that register created and that is not verified yet, a
\* login is refused; a verify-email with a code other than the stored one
\* answers 400 and changes nothing of the account, so that its code stays
\* usable; a verify-email with the stored code no later than its expiry
\* answers 200 and marks the account verified; once the account is verified, a
\* login with the password on file answers 200 with a session token
C20_RegisterVerifyLogin ==
  [][(Answered("login") \/ Answered("verifyEmail")) =>
     \A i \in AccountsOf(users, resp'.email) :
       /\ (Answered("login") /\ ~users[i].isEmailVerified) =>
            /\ resp'.status # 200
            /\ "token" \notin DOMAIN resp'
            /\ users' = users
       /\ (Answered("verifyEmail") /\ ~users[i].isEmailVerified
              /\ users[i].emailVerificationCode # NullCode
              /\ resp'.code # users[i].emailVerificationCode) =>
            /\ resp'.status = 400
            /\ users' = users
       /\ (Answered("verifyEmail") /\ ~users[i].isEmailVerified
              /\ users[i].emailVerificationCode # NullCode
              /\ resp'.code = users[i].emailVerificationCode
              /\ now <= users[i].emailVerificationExpiresAt) =>
            /\ resp'.status = 200
            /\ i \in DOMAIN users' /\ users'[i].isEmailVerified
            /\ users'[i].password = users[i].password
       /\ (Answered("login") /\ users[i].isEmailVerified /\ users[i].isActive
              /\ BcryptCompare(resp'.password, users[i].password)) =>
            /\ resp'.status = 200
            /\ resp'.token.userId = i
            /\ JwtVerify(resp'.token, now)
    ]_vars

\* C20 witness: a registered business account, verified since, logged in with
\* the password it registered with
C20_Witness ==
  /\ resp.op = "login" /\ resp.status = 200
  /\ resp.user.id \in DOMAIN users
  /\ users[resp.user.id].role = "business"
  /\ users[resp.user.id].isEmailVerified
  /\ resp.password = "Passw0rd1"
  /\ users[resp.user.id].lastLoginAt = now

\* a session token as login or register signed it, not expired, of an
\* account of the store
ValidSessionToken(token) ==
  /\ token # NoToken
  /\ JwtVerify(token, now)
  /\ token.purpose = "undefined"
  /\ token.userId \in DOMAIN users
  /\ token.email = users[token.userId].email
  /\ token.role = users[token.userId].role

\* C21: with a valid session token of an existing account, GET /auth/profile
\* answers 200 with the public view of that account, PUT /auth/profile
\* answers 200 and updates that account and no other, and DELETE
\* /auth/account answers 200 and removes that account and no other
C21_ProfileRoutesActOnPrincipal ==
  [][((Answered("getProfile") \/ Answered("updateProfile") \/ Answered("deleteAccount"))
        /\ "presented" \in DOMAIN resp' /\ ValidSessionToken(resp'.presented)) =>
       LET i == resp'.presented.userId IN
       /\ resp'.status = 200
       /\ Answered("getProfile") =>
            /\ resp'.user.row = PublicView(users[i])
            /\ users' = users
       /\ Answered("updateProfile") =>
            /\ users' = RepoUpdate(users, i, UpdateProfileFields("Maison"))
            /\ resp'.user.row = PublicView(users'[i])
       /\ Answered("deleteAccount") =>
            /\ users' = RepoDelete(users, i)
    ]_vars

\* C22: the store of an owner changes only by that owner's own createClient,
\* updateClient and deleteClient; a getClients of the owner answers with the
\* page, total and pages of the store as it is, and a getClientStats with the
\* statistics of the store as it is, never with what was cached before a
\* mutation
C22_CacheNeverSourceOfTruth ==
  [][/\ Answered("getClients") =>
          LET a == resp'.adminId
              q == resp'.query
          IN
          /\ resp'.data = ClientFindByAdminId(clients, a, (q[1] - 1) * q[2], q[2], q[3])
          /\ resp'.pagination.total = ClientCountByAdminId(clients, a, q[3])
     /\ Answered("getClientStats") =>
          resp'.stats = ClientGetStats(clients, resp'.adminId)
    ]_vars

\* C23: every stored client belongs to an account of the store
C23_ClientsHaveOwners ==
  \A c \in DOMAIN clients : clients[c].adminId \in DOMAIN users

\* C23 witness: clients were created, an account is gone and no stored
\* client is its, and a createClient with the token it still holds was refused
C23_Witness ==
  /\ resp.op = "createClient" /\ resp.status # 201
  /\ "adminId" \in DOMAIN resp /\ resp.adminId \notin DOMAIN users
  /\ nextClient > 0
  /\ \A c \in DOMAIN clients : clients[c].adminId # resp.adminId

\* an exception errorHandler has no case for
Unexpected(err) ==
  /\ err.class = "Error"
  /\ err.name \notin {"JsonWebTokenError", "TokenExpiredError", "CastError"}
  /\ ~(err.name = "MongoServerError" /\ err.code = 11000)

\* C24: errorHandler answers an unexpected exception with 500 and, in every
\* environment but development, with neither its message nor its stack; it
\* answers an AppError with the status code and the message of the AppError
C24_ErrorRendering ==
  resp.op = "errorHandler" =>
    /\ Unexpected(resp.err) =>
         /\ resp.status = 500
         /\ resp.env # "development" =>
              /\ resp.message # resp.err.message
              /\ resp.errors = NoErrors
    /\ resp.err.class = "AppError" =>
         /\ resp.status = resp.err.statusCode
         /\ resp.message = resp.err.message

\* the calls of op that have stored their code
Stored(op) == {p \in Procs : Pc(p) = "done" /\ inflight[p].op = op}

\* the verification pair on file is the pair of the call p
VerificationPairOf(us, i, p) ==
  /\ us[i].emailVerificationCode = GenerateCode(inflight[p].draw)
  /\ us[i].emailVerificationExpiresAt = inflight[p].expiresAt

\* the reset pair on file is the pair of the call p
ResetPairOf(us, i, p) ==
  /\ us[i].passwordResetCode = GenerateCode(inflight[p].draw)
  /\ us[i].passwordResetExpiresAt = inflight[p].expiresAt

\* C25: whatever the interleaving of the calls for one account, a step that
\* changes the stored code or the stored expiry writes the code and the expiry
\* of one call together, the code that passes verification from then on is
\* that call's code and no other, and once calls have stored, the pair on file
\* is the pair of one of them
C25_LastWriteWinsWhole ==
  /\ [](\A i \in DOMAIN users :
          /\ Stored("resend") # {} =>
               \E p \in Stored("resend") : VerificationPairOf(users, i, p)
          /\ Stored("forgotPassword") # {} =>
               \E p \in Stored("forgotPassword") : ResetPairOf(users, i, p))
  /\ [][\A i \in DOMAIN users :
          /\ (users'[i].emailVerificationCode # users[i].emailVerificationCode
                \/ users'[i].emailVerificationExpiresAt
                     # users[i].emailVerificationExpiresAt) =>
               \E p \in Procs :
                 /\ Pc(p) = "store" /\ inflight[p].op = "resend"
                 /\ inflight'[p].pc = "done"
                 /\ VerificationPairOf(users', i, p)
                 /\ \A c \in SubmittedCodes :
                      VerifyEmailLookup(users', users'[i].email, c, now) # NoUser
                        <=> (c = GenerateCode(inflight[p].draw)
                             /\ now <= inflight[p].expiresAt)
          /\ (users'[i].passwordResetCode # users[i].passwordResetCode
                \/ users'[i].passwordResetExpiresAt # users[i].passwordResetExpiresAt) =>
               \E p \in Procs :
                 /\ Pc(p) = "store" /\ inflight[p].op = "forgotPassword"
                 /\ inflight'[p].pc = "done"
                 /\ ResetPairOf(users', i, p)
                 /\ \A c \in SubmittedCodes :
                      VerifyPasswordResetCode(users', users'[i].email, c, now) # NoUser
                        <=> (c = GenerateCode(inflight[p].draw)
                             /\ now <= inflight[p].expiresAt)
       ]_vars

\* C25 witness: two resend calls for the account have both stored; the one
\* that computed its expiry first stored last, and its code and its expiry
\* are on file
C25_Witness ==
  \E p, q \in Procs :
    /\ p # q
    /\ {p, q} \subseteq Stored("resend")
    /\ inflight[p].draw # inflight[q].draw
    /\ inflight[p].expiresAt < inflight[q].expiresAt
    /\ VerificationPairOf(users, SeedId, p)
    /\ resp.op = "resend" /\ resp.proc = p

\* C26: a getClientById that starts after a deleteClient of the client has
\* returned success answers 404 'Client not found', and one that starts after
\* an updateClient has returned success, and no delete, answers 200 with the
\* updated row
C26_ReadsAfterMutation ==
  [][Answered("getClientById") =>
       /\ "deleteClient" \in resp'.after => resp'.status = 404
       /\ resp'.after = {"updateClient"} =>
            (resp'.status = 200 => resp'.data[1].name = UpdatedName)
    ]_vars

\* the columns of the users table that hold a code
CodeColumns == {"emailVerificationCode", "passwordResetCode"}

\* C27: the account a response of register, login, getProfile or
\* updateProfile carries shows no code that is on file for the account
C27_NoCodeInResponses ==
  [][((Answered("register") \/ Answered("login") \/ Answered("getProfile")
         \/ Answered("updateProfile"))
        /\ "user" \in DOMAIN resp' /\ resp'.user.id \in DOMAIN users') =>
       \A f \in CodeColumns \cap DOMAIN resp'.user.row :
          \/ resp'.user.row[f] = NullCode
          \/ resp'.user.row[f] # users'[resp'.user.id][f]
    ]_vars

\* C28: a createClient that succeeds behind authenticate is performed for an
\* account whose e-mail is verified
C28_VerifiedBehindAuthenticate ==
  [][(Answered("createClient") /\ resp'.status = 201) =>
       /\ resp'.adminId \in DOMAIN users
       /\ users[resp'.adminId].isEmailVerified
    ]_vars

\* C29: a request with a valid session token of a business account is
\* limited at 50 per minute and one of a super_admin account at 100 per
\* minute, and a request without a token gets the guest limit
C29_RoleBasedLimit ==
  [][Answered("request") =>
       /\ ValidSessionToken(resp'.presented) =>
            /\ resp'.presented.role = "business" => resp'.max = 50
            /\ resp'.presented.role = "super_admin" => resp'.max = 100
       /\ resp'.presented = NoToken => resp'.role = "guest"
    ]_vars

\* the number a string of decimal digits denotes
RECURSIVE FromDigits(_)
FromDigits(digits) ==
  IF digits = << >> THEN 0
  ELSE 10 * FromDigits(SubSeq(digits, 1, Len(digits) - 1)) + digits[Len(digits)]

\* some value of Math.random() makes the generator issue this code: the
\* only draw that can is the number the code denotes less 100000
Issuable(code) ==
  LET draw == FromDigits(code) - CodeBase IN
  draw \in 0..MaxDraw /\ GenerateCode(draw) = code

\* codes at the ends of 000000-999999 and at the ends of what the generator
\* covers
SixDigitSamples ==
  {<<0, 0, 0, 0, 0, 0>>, <<0, 9, 9, 9, 9, 9>>, <<1, 0, 0, 0, 0, 0>>,
   <<5, 0, 0, 0, 0, 0>>, <<9, 9, 9, 9, 9, 9>>}

\* C30: every code issued is a string of exactly 6 decimal digits, and every
\* string of 6 decimal digits, those with leading zeros included, can be
\* issued
C30_SixDigitsAllIssuable ==
  /\ "sent" \in DOMAIN resp =>
       /\ Len(resp.sent) = 6
       /\ \A k \in 1..Len(resp.sent) : resp.sent[k] \in 0..9
  /\ \A code \in SixDigitSamples : Issuable(code)

====
